---- MODULE Spec2Model ----
(***************************************************************************)
(* Model of PS5ELFProcessor (src/Backport.py): the libc patch engine       *)
(* (apply_libc_patch / revert_libc_patch) and the pipelines built on it    *)
(* (decrypt_files, downgrade_and_sign, process_full_pipeline).             *)
(*                                                                         *)
(* A file's content is a sequence of bytes.  Its first element stands for  *)
(* the four magic bytes at offset 0 (one token per magic); every other     *)
(* element is one byte.  Neither patch pattern starts inside a magic (no   *)
(* magic holds the byte "4" or "I"), so a pattern never overlaps it.       *)
(* A path is <<directory, stem, suffix>>.                                  *)
(***************************************************************************)
EXTENDS Integers, Sequences, FiniteSets, TLC

VARIABLES fs, pc, pe, dc, ds, fp, log, hist, nCalls, nFaults, tree, cf, cli, gui

vars == <<fs, pc, pe, dc, ds, fp, log, hist, nCalls, nFaults, tree, cf, cli, gui>>

----------------------------------------------------------------------------
(* Bounds of the model *)

\* top-level calls made by the user in one behaviour of the patch engine
MaxCalls == 3
\* I/O faults injected in one behaviour
MaxFaults == 1
\* collaborator calls (decoder, version patcher, signer) that fail in one behaviour
MaxFailures == 2

\* presses of the RUN button that start a worker
MaxRuns == 2

\* lines an operation prints while the worker runs it
MaxPrints == 1

----------------------------------------------------------------------------
(* Program constants *)

LIBC_PATCH_PATTERN ==
    <<"4","h","6","F","1","L","L","b","T","i","w","#","A","#","B">>

LIBC_PATCH_REPLACEMENT ==
    <<"I","W","I","B","B","d","T","H","i","t","4","#","A","#","B">>

ELF_MAGIC == "7F454C46"

SELF_MAGICS == {"4F153D1D", "5414F5EE"}

\* the pair threshold of the conditional patch step
SDK_PATCH_THRESHOLD == 6

APPLY_BACKUP_SUFFIX == ".bak"

REVERT_BACKUP_SUFFIX == ".revert_bak"

----------------------------------------------------------------------------
(* Bytes: `pattern in content` and bytes.replace *)

StartsAt(s, pat, i) ==
    /\ i + Len(pat) - 1 <= Len(s)
    /\ \A k \in 1..Len(pat) : s[i + k - 1] = pat[k]

Contains(pat, s) == \E i \in 1..Len(s) : StartsAt(s, pat, i)

RECURSIVE ReplaceFrom(_, _, _, _)
ReplaceFrom(s, old, new, i) ==
    IF i > Len(s) THEN <<>>
    ELSE IF StartsAt(s, old, i)
         THEN new \o ReplaceFrom(s, old, new, i + Len(old))
         ELSE <<s[i]>> \o ReplaceFrom(s, old, new, i + 1)

\* a replace that stops after the first occurrence
ReplaceFirst(s, old, new) ==
    IF \E i \in 1..Len(s) : StartsAt(s, old, i)
    THEN LET i == CHOOSE j \in 1..Len(s) :
                     /\ StartsAt(s, old, j)
                     /\ \A k \in 1..(j - 1) : ~StartsAt(s, old, k)
         IN SubSeq(s, 1, i - 1) \o new \o SubSeq(s, i + Len(old), Len(s))
    ELSE s

\* content.replace(old, new): every occurrence, leftmost first
Replace(s, old, new) == ReplaceFrom(s, old, new, 1)

----------------------------------------------------------------------------
(* The file system *)

\* "tmp_out" is the directory "output" inside the temporary directory
Dirs == {"in", "tmp", "tmp_out", "out"}

Stems == {"eboot", "libc"}

Suffixes == {".bin", ".prx", APPLY_BACKUP_SUFFIX, REVERT_BACKUP_SUFFIX}

Paths == Dirs \X Stems \X Suffixes

\* the value of fs at a path that holds no file
NoFile == <<"ENOENT">>

Exists(f, p) == f[p] # NoFile

DirOf(p) == p[1]

\* Path.with_suffix
WithSuffix(p, suffix) == <<p[1], p[2], suffix>>

\* a suffix test written for upper-case names
EndsWithUpperBak(p) == p[3] = ".BAK"

\* filename.endswith('.bak'): ".revert_bak" ends with "_bak", not ".bak"
EndsWithBak(p) == p[3] = ".bak"

\* filename.lower() == 'libc.prx'
IsLibcPrx(p) == p[2] = "libc" /\ p[3] = ".prx"

Magic(c) == IF Len(c) >= 1 THEN c[1] ELSE "short"

IsElfFile(f, p) ==
    /\ ~EndsWithBak(p)
    /\ Exists(f, p)
    /\ Magic(f[p]) = ELF_MAGIC

IsSelfFile(f, p) ==
    /\ ~EndsWithBak(p)
    /\ Exists(f, p)
    /\ Magic(f[p]) \in SELF_MAGICS

\* p lies in directory d or in a directory below it
Under(p, d) == DirOf(p) = d \/ (d = "tmp" /\ DirOf(p) = "tmp_out")

FilesIn(f, d) == {p \in Paths : Under(p, d) /\ Exists(f, p)}

\* all orders in which os.walk may list a set of files
Orders(S) ==
    {q \in [1..Cardinality(S) -> S] : \A i, j \in 1..Cardinality(S) : q[i] = q[j] => i = j}

\* what a write leaves behind when it fails half way
PartialWrite(c) == SubSeq(c, 1, (Len(c) + 1) \div 2)

----------------------------------------------------------------------------
(* The patch engine: apply_libc_patch and revert_libc_patch *)

NoPath == <<"none", "none", "none">>

\* the faults the environment may inject into the handling of one file
Faults == {"none", "read", "backup", "backup_partial", "write_trunc",
           "write_partial", "lost_write", "readback", "remove"}

\* search pattern, replacement, backup suffix and status names of an operation
PatchSpec(op) ==
    IF op = "apply"
    THEN [search |-> LIBC_PATCH_PATTERN, repl |-> LIBC_PATCH_REPLACEMENT,
          suffix |-> APPLY_BACKUP_SUFFIX, done |-> "applied",
          already |-> "already_patched", notfound |-> "pattern_not_found"]
    ELSE [search |-> LIBC_PATCH_REPLACEMENT, repl |-> LIBC_PATCH_PATTERN,
          suffix |-> REVERT_BACKUP_SUFFIX, done |-> "reverted",
          already |-> "already_original", notfound |-> "patch_not_found"]

\* the files an operation works on: the SELF files of the directory, then
\* every libc.prx that is not among them
SelfFiles(f, d) == {p \in FilesIn(f, d) : IsSelfFile(f, p)}

LibcExtra(f, d) == {p \in FilesIn(f, d) : IsLibcPrx(p) /\ ~IsSelfFile(f, p)}

TargetOrders(f, d) ==
    {q \o r : q \in Orders(SelfFiles(f, d)), r \in Orders(LibcExtra(f, d))}

\* backup_path = file_path.with_suffix(suffix) if create_backup else None
BackupPath(p, suffix, backup) ==
    IF backup THEN WithSuffix(p, suffix) ELSE NoPath

\* search_pattern not in new_content and replacement_pattern in new_content
Verified(search, repl, new) ==
    ~Contains(search, new) /\ Contains(repl, new)

\* if backup_path and backup_path.exists(): shutil.copy2(backup_path, file_path)
Restore(f, p, bp) ==
    IF bp # NoPath /\ Exists(f, bp) THEN [f EXCEPT ![p] = f[bp]] ELSE f

\* if backup_path and backup_path.exists(): os.remove(backup_path), errors ignored
Cleanup(f, bp, removeFails) ==
    IF bp # NoPath /\ Exists(f, bp) /\ ~removeFails
    THEN [f EXCEPT ![bp] = NoFile]
    ELSE f

\* the file after open(file_path, 'wb') and f.write(patched)
Written(f, p, patched, fault) ==
    CASE fault = "write_trunc"   -> [f EXCEPT ![p] = <<>>]
      [] fault = "write_partial" -> [f EXCEPT ![p] = PartialWrite(patched)]
      [] fault = "lost_write"    -> f
      [] OTHER                   -> [f EXCEPT ![p] = patched]

\* the inner try block: patch, write, read back, verify, restore, clean up
MutateFile(f1, p, bp, ps, fault) ==
    LET patched == Replace(f1[p], ps.search, ps.repl)
        f2      == Written(f1, p, patched, fault)
    IN IF fault \in {"write_trunc", "write_partial", "readback"}
       THEN [fs |-> Restore(f2, p, bp), status |-> "error", counter |-> "failed"]
       ELSE IF Verified(ps.search, ps.repl, f2[p])
            THEN [fs |-> Cleanup(f2, bp, fault = "remove"),
                  status |-> ps.done, counter |-> "done"]
            ELSE [fs |-> Cleanup(Restore(f2, p, bp), bp, fault = "remove"),
                  status |-> "failed", counter |-> "failed"]

\* the test that reports a file as already_patched / already_original
AlreadyTest(content, ps) ==
    Contains(ps.search, content) /\ Contains(ps.repl, content)

\* one iteration of the loop over self_files
PatchOneFile(f0, p, op, backup, fault) ==
    LET ps      == PatchSpec(op)
        content == f0[p]
        bp      == BackupPath(p, ps.suffix, backup)
        unchanged(st, c) == [fs |-> f0, status |-> st, counter |-> c]
    IN IF ~Exists(f0, p) \/ fault = "read"
       THEN unchanged("error", "failed")
       ELSE IF AlreadyTest(content, ps)
       THEN unchanged(ps.already, "already")
       ELSE IF ~Contains(ps.search, content)
       THEN unchanged(ps.notfound, "notfound")
       ELSE IF bp # NoPath /\ (bp = p \/ fault = "backup")
       THEN unchanged("error", "failed")
       ELSE IF bp # NoPath /\ fault = "backup_partial"
       THEN [fs |-> [f0 EXCEPT ![bp] = PartialWrite(content)],
             status |-> "error", counter |-> "failed"]
       ELSE MutateFile(IF bp # NoPath THEN [f0 EXCEPT ![bp] = content] ELSE f0,
                       p, bp, ps, fault)

\* whether injecting the fault changes anything for this file
FaultApplies(f0, p, op, backup, fault) ==
    LET ps == PatchSpec(op)
        bp == BackupPath(p, ps.suffix, backup)
        mutates == /\ Exists(f0, p)
                   /\ Contains(ps.search, f0[p])
                   /\ ~Contains(ps.repl, f0[p])
    IN CASE fault = "none" -> TRUE
         [] fault = "read" -> Exists(f0, p)
         [] fault \in {"backup", "backup_partial", "remove"} ->
                mutates /\ bp # NoPath /\ bp # p
         [] OTHER -> mutates /\ bp # p

NoFiles == [p \in Paths |-> ""]

ZeroCounters == [done |-> 0, already |-> 0, notfound |-> 0, failed |-> 0]

\* the report of check_libc_patch_status: its five lists and total_files
NoCheck ==
    [original_files |-> <<>>, patched_files |-> <<>>, both_patterns_files |-> <<>>,
     no_pattern_files |-> <<>>, error_files |-> <<>>, total_files |-> 0]

NoPatch ==
    [op |-> "none", dir |-> "none", backup |-> FALSE, caller |-> "none",
     queue |-> <<>>, files |-> NoFiles, cnt |-> ZeroCounters, check |-> NoCheck]

\* entry of apply_libc_patch / revert_libc_patch: the results and self_files
PatchEnter(op, d, backup, caller, order) ==
    [op |-> op, dir |-> d, backup |-> backup, caller |-> caller,
     queue |-> order, files |-> NoFiles, cnt |-> ZeroCounters, check |-> NoCheck]

BumpNoFailed(cnt, c) == IF c = "failed" THEN cnt ELSE [cnt EXCEPT ![c] = @ + 1]

\* results[counter] += 1
Bump(cnt, c) == [cnt EXCEPT ![c] = @ + 1]

\* what the history keeps of the patch call before the current one
NoHist ==
    [prev |-> [op |-> "none", pre |-> [p \in Paths |-> NoFile],
               files |-> NoFiles, fault |-> FALSE, targets |-> {}],
     pre |-> [p \in Paths |-> NoFile], fault |-> FALSE, targets |-> {}]

HistEnter(order) ==
    [prev |-> [op |-> pe.op, pre |-> hist.pre, files |-> pe.files,
               fault |-> hist.fault, targets |-> hist.targets],
     pre |-> fs, fault |-> FALSE,
     targets |-> {order[i] : i \in 1..Len(order)}]

\* the command line of the process: no entry point when the processor is used
\* as a library; otherwise the entry point, the operation its arguments
\* select, and the exit status once sys.exit has run
NoCli == [entry |-> "none", operation |-> "none", exited |-> FALSE, code |-> 0]

\* a library user may call any operation; an entry point makes the one call
\* its mode selects
CallAllowed(operation) ==
    \/ cli.entry = "none"
    \/ cli.operation = operation /\ ~cli.exited /\ nCalls = 0

\* the user calls apply_libc_patch(input_dir = out, create_backup = backup)
ApplyCall ==
    /\ pc = "idle"
    /\ CallAllowed("apply_libc_patch")
    /\ nCalls < MaxCalls
    /\ \E backup \in BOOLEAN, order \in TargetOrders(fs, "out") :
          /\ pe' = PatchEnter("apply", "out", backup, "user", order)
          /\ hist' = HistEnter(order)
    /\ pc' = "patch"
    /\ nCalls' = nCalls + 1
    /\ UNCHANGED <<fs, dc, ds, fp, log, nFaults>>
    /\ UNCHANGED <<tree, cf, cli, gui>>

\* the user calls revert_libc_patch(input_dir = out, create_backup = backup)
RevertCall ==
    /\ pc = "idle"
    /\ CallAllowed("revert_libc_patch")
    /\ nCalls < MaxCalls
    /\ \E backup \in BOOLEAN, order \in TargetOrders(fs, "out") :
          /\ pe' = PatchEnter("revert", "out", backup, "user", order)
          /\ hist' = HistEnter(order)
    /\ pc' = "patch"
    /\ nCalls' = nCalls + 1
    /\ UNCHANGED <<fs, dc, ds, fp, log, nFaults>>
    /\ UNCHANGED <<tree, cf, cli, gui>>

\* one iteration of `for file_path in self_files`
PatchFileStep ==
    /\ pc = "patch"
    /\ pe.queue # <<>>
    /\ \E fault \in Faults :
          LET p == Head(pe.queue)
              r == PatchOneFile(fs, p, pe.op, pe.backup, fault)
          IN /\ fault # "none" => nFaults < MaxFaults
             /\ FaultApplies(fs, p, pe.op, pe.backup, fault)
             /\ fs' = r.fs
             /\ pe' = [pe EXCEPT !.queue = Tail(@),
                                 !.files[p] = r.status,
                                 !.cnt = Bump(@, r.counter)]
             /\ nFaults' = IF fault = "none" THEN nFaults ELSE nFaults + 1
             /\ hist' = [hist EXCEPT !.fault = @ \/ fault # "none"]
    /\ UNCHANGED <<pc, dc, ds, fp, log, nCalls>>
    /\ UNCHANGED <<tree, cf, cli, gui>>

\* `return results` of a call made by the user
PatchReturn ==
    /\ pc = "patch"
    /\ pe.queue = <<>>
    /\ pe.caller = "user"
    /\ pc' = "idle"
    /\ UNCHANGED <<fs, pe, dc, ds, fp, log, hist, nCalls, nFaults>>
    /\ UNCHANGED <<tree, cf, cli, gui>>

----------------------------------------------------------------------------
(* The configuration file: _load_config, _save_config and their callers *)

\* what the configuration file may hold: no file, a file that cannot be
\* opened, text that is not JSON, JSON that is not an object (a list, null),
\* an object without 'directories', one whose 'directories' is not an
\* object, one whose 'directories' is empty, and the object _save_config
\* writes
ConfigKinds ==
    {"missing", "unreadable", "malformed", "not_object", "no_directories",
     "directories_not_object", "empty_directories", "saved"}

ConfigFile(kind, input, output) ==
    [kind |-> kind, last_input |-> input, last_output |-> output]

\* _load_config: the parsed file, or the default config when the file is
\* missing or open / json.load raises; object tells whether it is a dict
LoadConfig(file) ==
    IF file.kind \in {"missing", "unreadable", "malformed"}
    THEN [object |-> TRUE, last_input |-> "", last_output |-> ""]
    ELSE [object |-> file.kind # "not_object",
          last_input |-> file.last_input, last_output |-> file.last_output]

\* _save_directories_to_config: `config['directories'] = {...}` raises
\* TypeError when the loaded value is not a dict
SaveDirectoriesRaises(file) == ~LoadConfig(file).object

\* _save_config: the file after the write; a file that cannot be opened is
\* left as it is, the exception dropped
SaveDirectories(file, input, output) ==
    IF file.kind = "unreadable" THEN file ELSE ConfigFile("saved", input, output)

\* get_last_directories: config.get raises AttributeError when the loaded
\* value is not a dict, dirs.get when its 'directories' is not one
GetLastRaises(file) ==
    \/ ~LoadConfig(file).object
    \/ file.kind = "directories_not_object"

GetLastDirectories(file) ==
    <<LoadConfig(file).last_input, LoadConfig(file).last_output>>

\* the configuration file left by an earlier run over the same directories,
\* no get_last_directories result yet
SavedConfig ==
    [file |-> ConfigFile("saved", "in", "out"), result |-> <<"none", "none">>]

\* the user calls get_last_directories()
GetLastDirectoriesCall ==
    /\ pc = "idle"
    /\ nCalls < MaxCalls
    /\ IF GetLastRaises(cf.file)
       THEN pc' = "raised" /\ UNCHANGED cf
       ELSE pc' = "idle" /\ cf' = [cf EXCEPT !.result = GetLastDirectories(cf.file)]
    /\ nCalls' = nCalls + 1
    /\ UNCHANGED <<fs, pe, dc, ds, fp, log, hist, nFaults, tree, cli, gui>>

----------------------------------------------------------------------------
(* check_libc_patch_status *)

\* a classification that tests the original pattern alone first
ClassifyOriginalFirst(content) ==
    IF Contains(LIBC_PATCH_PATTERN, content) THEN "original_files"
    ELSE IF Contains(LIBC_PATCH_REPLACEMENT, content) THEN "patched_files"
    ELSE "no_pattern_files"

\* the if / elif chain over has_original and has_patch
Classify(content) ==
    LET has_original == Contains(LIBC_PATCH_PATTERN, content)
        has_patch    == Contains(LIBC_PATCH_REPLACEMENT, content)
    IN IF has_original /\ ~has_patch THEN "original_files"
       ELSE IF has_patch /\ ~has_original THEN "patched_files"
       ELSE IF has_original /\ has_patch THEN "both_patterns_files"
       ELSE "no_pattern_files"

\* the list a file is appended to; a file that cannot be read goes to
\* error_files in the except branch
ListOf(f, p, unreadable) ==
    IF p \in unreadable THEN "error_files" ELSE Classify(f[p])

RECURSIVE AppendAll(_, _, _, _)
\* `for file_path in self_files`: every file appended to its list
AppendAll(report, f, order, unreadable) ==
    IF order = <<>> THEN report
    ELSE LET p == Head(order)
             l == ListOf(f, p, unreadable)
         IN AppendAll([report EXCEPT ![l] = Append(@, p)], f, Tail(order), unreadable)

\* the report of one call over the files in `order`
CheckReport(f, order, unreadable) ==
    IF order = <<>> THEN NoCheck
    ELSE AppendAll([NoCheck EXCEPT !.total_files = Len(order)], f, order, unreadable)

\* the user calls check_libc_patch_status(input_dir = out)
CheckCall ==
    /\ pc = "idle"
    /\ CallAllowed("check_libc_patch_status")
    /\ nCalls < MaxCalls
    /\ \E order \in TargetOrders(fs, "out") :
          \E unreadable \in SUBSET {order[i] : i \in 1..Len(order)} :
             /\ nFaults + Cardinality(unreadable) <= MaxFaults
             /\ pe' = [NoPatch EXCEPT !.op = "check", !.dir = "out",
                                      !.caller = "user",
                                      !.check = CheckReport(fs, order, unreadable)]
             /\ hist' = HistEnter(order)
             /\ nFaults' = nFaults + Cardinality(unreadable)
    /\ nCalls' = nCalls + 1
    /\ UNCHANGED <<fs, pc, dc, ds, fp, log>>
    /\ UNCHANGED <<tree, cf, cli, gui>>

----------------------------------------------------------------------------
(* The collaborators: decoder, version patcher, signer *)

\* the three ways a collaborator call can end
Outcomes == {"ok", "fail", "raise"}

\* the path of a file of directory d mirrored under directory out
Mirror(p, out) == <<out, p[2], p[3]>>

\* UnsignedELFConverter.convert_file: the container turned into a raw
\* executable; a call that fails may leave nothing or a partial output
Decoded(c) == <<ELF_MAGIC>> \o Tail(c)

DecoderWrites(c, outcome) ==
    IF outcome = "ok" THEN {Decoded(c)}
    ELSE {NoFile, PartialWrite(Decoded(c))}

\* FakeSignedELFConverter.sign_file: the executable wrapped into a container
Signed(c) == <<"4F153D1D">> \o Tail(c)

\* an event of the run: a collaborator or a stage invoked on a path
Event(kind, p, res) == [ev |-> kind, p |-> p, res |-> res]

DirEvent(kind, d) == [ev |-> kind, p |-> <<d, "*", "*">>, res |-> "call"]

Happened(kind, p) == \E i \in 1..Len(log) : log[i].ev = kind /\ log[i].p = p

\* the collaborator calls that failed so far
Failures == Cardinality({i \in 1..Len(log) : log[i].res \in {"fail", "raise"}})

\* the outcomes a collaborator call may still have
Allowed == IF Failures < MaxFailures THEN Outcomes ELSE {"ok"}

Count(kind) == Cardinality({i \in 1..Len(log) : log[i].ev = kind})

\* a stage that counts only a false return as a failure
FailedOnlyWhenFalse(outcome) == IF outcome = "fail" THEN 1 ELSE 0

\* what one collaborator call adds to the failed counter of its stage: the
\* else branch of `if success` and the `except Exception` branch add one each
FailedIncrement(outcome) == IF outcome = "ok" THEN 0 ELSE 1

----------------------------------------------------------------------------
(* decrypt_files *)

NoDecrypt ==
    [input |-> "none", output |-> "none", overwrite |-> FALSE, caller |-> "none",
     found |-> {}, queue |-> <<>>, files |-> NoFiles, successful |-> 0, failed |-> 0]

\* entry of decrypt_files: the results and the SELF files under input
DecryptEnter(input, output, overwrite, caller, order) ==
    [input |-> input, output |-> output, overwrite |-> overwrite, caller |-> caller,
     found |-> {order[i] : i \in 1..Len(order)},
     queue |-> order, files |-> NoFiles, successful |-> 0, failed |-> 0]

\* one iteration of `for self_file in self_files`
DecryptStep ==
    /\ pc = "decrypt"
    /\ dc.queue # <<>>
    /\ LET p   == Head(dc.queue)
           out == Mirror(p, dc.output)
       IN IF Exists(fs, out) /\ ~dc.overwrite
          THEN /\ dc' = [dc EXCEPT !.queue = Tail(@)]
               /\ UNCHANGED <<fs, log>>
          ELSE \E outcome \in Allowed :
                 \E w \in DecoderWrites(fs[p], outcome) :
                   /\ fs' = IF w = NoFile /\ outcome # "ok" THEN fs
                            ELSE [fs EXCEPT ![out] = w]
                   /\ log' = Append(log, Event("decoder", p, outcome))
                   /\ dc' = [dc EXCEPT
                        !.queue = Tail(@),
                        !.files[p] = CASE outcome = "ok"   -> "Success"
                                       [] outcome = "fail" -> "Failed"
                                       [] OTHER            -> "Error",
                        !.successful = IF outcome = "ok" THEN @ + 1 ELSE @,
                        !.failed = @ + FailedIncrement(outcome)]
    /\ UNCHANGED <<pc, pe, ds, fp, hist, nCalls, nFaults>>
    /\ UNCHANGED <<tree, cf, cli, gui>>

\* the user calls decrypt_files(in, out, overwrite)
DecryptCall ==
    /\ pc = "idle"
    /\ CallAllowed("decrypt_files")
    /\ nCalls < 1
    /\ \E overwrite \in BOOLEAN, save_to_config \in BOOLEAN,
          order \in Orders(SelfFiles(fs, "in")) :
          IF save_to_config /\ SaveDirectoriesRaises(cf.file)
          THEN /\ pc' = "raised"
               /\ UNCHANGED <<dc, log, cf>>
          ELSE /\ cf' = IF save_to_config
                        THEN [cf EXCEPT !.file = SaveDirectories(@, "in", "out")]
                        ELSE cf
               /\ dc' = DecryptEnter("in", "out", overwrite, "user", order)
               /\ log' = Append(log, DirEvent("decrypt_files", "in"))
               /\ pc' = "decrypt"
    /\ nCalls' = nCalls + 1
    /\ UNCHANGED <<fs, pe, ds, fp, hist, nFaults, tree, cli, gui>>

\* `return results` of a call made by the user
DecryptReturn ==
    /\ pc = "decrypt"
    /\ dc.queue = <<>>
    /\ dc.caller = "user"
    /\ pc' = "done"
    /\ UNCHANGED <<fs, pe, dc, ds, fp, log, hist, nCalls, nFaults>>
    /\ UNCHANGED <<tree, cf, cli, gui>>

----------------------------------------------------------------------------
(* The fakelib copies: _copy_fakelib and _copy_fakelib_to_eboot_dirs *)

\* the sub-directories of the output root; "root" is the output root itself
SubDirs == {"sub1", "sub2"}

Locations == {"root"} \cup SubDirs

\* names of files in the sub-directories of the output root
FileNames == {"eboot.bin", "EBOOT.BIN", "param.sfo"}

\* str.lower on those names
Lower(name) == IF name = "EBOOT.BIN" THEN "eboot.bin" ELSE name

\* filename.lower() == 'eboot.bin'
IsEbootName(name) == Lower(name) = "eboot.bin"

\* source: what fakelib_source names ("missing", "file" or "dir");
\* names: the files of each sub-directory of the output root;
\* fakelib: the fakelib directory at each location ("none", "old" from an
\* earlier run, "new" as copied from the source, "partial" after a failed copy)
PlainTree ==
    [source |-> "dir", names |-> [d \in SubDirs |-> {}],
     fakelib |-> [l \in Locations |-> "none"]]

\* eboot_files: the files named eboot.bin found by os.walk(output_dir), each
\* with its directory
EbootFiles(f, t, output) ==
    (IF Exists(f, <<output, "eboot", ".bin">>) THEN {<<"root", "eboot.bin">>} ELSE {})
       \cup {e \in SubDirs \X FileNames : e[2] \in t.names[e[1]] /\ IsEbootName(e[2])}

\* `if eboot_dir == output_dir: continue`
SameAsOutputRoot(loc) == loc = "root"

\* the ways one copy may fail: rmtree of the fakelib already there raises, or
\* copytree raises after the old one was removed
CopyFaults(t, loc, n) ==
    IF t.source = "dir" /\ n < MaxFaults
    THEN {"none", "copytree"} \cup (IF t.fakelib[loc] # "none" THEN {"rmtree"} ELSE {})
    ELSE {"none"}

\* the fakelib directory at loc after rmtree and copytree
CopyTo(t, loc, fault) ==
    CASE fault = "none"     -> "new"
      [] fault = "copytree" -> "partial"
      [] OTHER              -> t.fakelib[loc]

\* _copy_fakelib(fakelib_source, output_dir)
CopyFakelib(t, fault) ==
    CASE t.source = "missing" ->
            [success |-> TRUE, message |-> "not found (skipping)", tree |-> t]
      [] t.source = "file" ->
            [success |-> FALSE, message |-> "not a directory", tree |-> t]
      [] OTHER ->
            [success |-> fault = "none",
             message |-> IF fault = "none" THEN "Copied" ELSE "Failed to copy",
             tree |-> [t EXCEPT !.fakelib["root"] = CopyTo(t, "root", fault)]]

\* one copy into a location, with the way it ended
CopyEvent(loc, fault) ==
    [ev |-> "copy", p |-> <<"out", loc, "fakelib">>,
     res |-> IF fault = "none" THEN "copied" ELSE "copy_failed"]

----------------------------------------------------------------------------
(* downgrade_and_sign *)

SdkPairs == {SDK_PATCH_THRESHOLD, SDK_PATCH_THRESHOLD + 1}

Configs ==
    [sdk_pair : SdkPairs, apply_libc_patch : BOOLEAN,
     auto_revert_for_high_sdk : BOOLEAN, overwrite : BOOLEAN, fakelib : BOOLEAN]

NoConfig ==
    [sdk_pair |-> 0, apply_libc_patch |-> FALSE, auto_revert_for_high_sdk |-> FALSE,
     overwrite |-> FALSE, fakelib |-> FALSE]

NoDs ==
    [input |-> "none", output |-> "none", cfg |-> NoConfig, caller |-> "none",
     elf_files |-> <<>>, queue |-> <<>>, pre |-> [p \in Paths |-> NoFile],
     downgrade |-> [successful |-> 0, failed |-> 0, files |-> NoFiles],
     signing |-> [successful |-> 0, failed |-> 0, files |-> NoFiles],
     libc_patch |-> [applied |-> 0, reverted |-> 0],
     fakelib |-> [success |-> FALSE, message |-> ""],
     fakelib_copies |-> [created |-> 0, locations |-> <<>>]]

ElfOrders(f, d) == Orders({p \in FilesIn(f, d) : IsElfFile(f, p)})

\* entry of downgrade_and_sign: the results and the ELF files under input
DsEnter(input, output, cfg, caller, order) ==
    [NoDs EXCEPT !.input = input, !.output = output, !.cfg = cfg,
                 !.caller = caller, !.elf_files = order, !.queue = order,
                 !.pre = fs]

SignAlways(dgStatus) == FALSE

\* `if not results['downgrade']['files'].get(...).get('success', False)`
SkipAfterDowngradeFailure(dgStatus) == dgStatus # "Success"

PatchStepStrictlyBelow(cfg) ==
    IF cfg.apply_libc_patch
    THEN IF cfg.sdk_pair < SDK_PATCH_THRESHOLD THEN "apply"
         ELSE IF cfg.auto_revert_for_high_sdk THEN "revert" ELSE "none"
    ELSE "none"

\* step 3: which patch operation the configuration selects
PatchStepChoice(cfg) ==
    IF cfg.apply_libc_patch
    THEN IF cfg.sdk_pair <= SDK_PATCH_THRESHOLD THEN "apply"
         ELSE IF cfg.auto_revert_for_high_sdk THEN "revert" ELSE "none"
    ELSE "none"

\* the user calls downgrade_and_sign(in, out, ...)
DowngradeAndSignCall ==
    /\ pc = "idle"
    /\ CallAllowed("downgrade_and_sign")
    /\ nCalls < 1
    /\ \E cfg \in Configs, save_to_config \in BOOLEAN,
          order \in ElfOrders(fs, "in") :
          IF save_to_config /\ SaveDirectoriesRaises(cf.file)
          THEN /\ pc' = "raised"
               /\ UNCHANGED <<ds, log, cf>>
          ELSE /\ cf' = IF save_to_config
                        THEN [cf EXCEPT !.file = SaveDirectories(@, "in", "out")]
                        ELSE cf
               /\ ds' = DsEnter("in", "out", cfg, "user", order)
               /\ log' = Append(log, DirEvent("downgrade_and_sign", "in"))
               /\ pc' = IF order = <<>> THEN "ds_return" ELSE "ds_downgrade"
    /\ nCalls' = nCalls + 1
    /\ UNCHANGED <<fs, pe, dc, fp, hist, nFaults, tree, cli, gui>>

\* step 1, one iteration: sdk_patcher.patch_file(elf_file)
DowngradeStep ==
    /\ pc = "ds_downgrade"
    /\ ds.queue # <<>>
    /\ \E outcome \in Allowed :
          LET p == Head(ds.queue)
          IN /\ log' = Append(log, Event("patcher", p, outcome))
             /\ ds' = [ds EXCEPT
                  !.queue = Tail(@),
                  !.downgrade.files[p] = CASE outcome = "ok"   -> "Success"
                                           [] outcome = "fail" -> "Failed"
                                           [] OTHER            -> "Error",
                  !.downgrade.successful = IF outcome = "ok" THEN @ + 1 ELSE @,
                  !.downgrade.failed = @ + FailedIncrement(outcome)]
    /\ UNCHANGED <<fs, pc, pe, dc, fp, hist, nCalls, nFaults>>
    /\ UNCHANGED <<tree, cf, cli, gui>>

DowngradeLoopEndEarly ==
    /\ pc = "ds_downgrade"
    /\ ds' = [ds EXCEPT !.queue = ds.elf_files]
    /\ pc' = "ds_sign"
    /\ UNCHANGED <<fs, pe, dc, fp, log, hist, nCalls, nFaults>>
    /\ UNCHANGED <<tree, cf, cli, gui>>

\* end of the downgrade loop: the signing loop starts over the same list
DowngradeLoopEnd ==
    /\ pc = "ds_downgrade"
    /\ ds.queue = <<>>
    /\ ds' = [ds EXCEPT !.queue = ds.elf_files]
    /\ pc' = "ds_sign"
    /\ UNCHANGED <<fs, pe, dc, fp, log, hist, nCalls, nFaults>>
    /\ UNCHANGED <<tree, cf, cli, gui>>

\* step 2, one iteration: skip, or converter.sign_file(elf_file, output_file)
SignStep ==
    /\ pc = "ds_sign"
    /\ ds.queue # <<>>
    /\ LET p   == Head(ds.queue)
           out == Mirror(p, ds.output)
       IN IF SkipAfterDowngradeFailure(ds.downgrade.files[p])
          THEN /\ ds' = [ds EXCEPT
                    !.queue = Tail(@),
                    !.signing.files[p] = "Skipped due to downgrade failure",
                    !.signing.failed = @ + 1]
               /\ UNCHANGED <<fs, log>>
          ELSE IF Exists(fs, out) /\ ~ds.cfg.overwrite
          THEN /\ ds' = [ds EXCEPT !.queue = Tail(@)]
               /\ UNCHANGED <<fs, log>>
          ELSE \E outcome \in Allowed :
                 /\ fs' = IF outcome = "ok"
                          THEN [fs EXCEPT ![out] = Signed(fs[p])]
                          ELSE fs
                 /\ log' = Append(log, Event("signer", p, outcome))
                 /\ ds' = [ds EXCEPT
                      !.queue = Tail(@),
                      !.signing.files[p] = CASE outcome = "ok"   -> "Success"
                                             [] outcome = "fail" -> "Failed"
                                             [] OTHER            -> "Error",
                      !.signing.successful = IF outcome = "ok" THEN @ + 1 ELSE @,
                      !.signing.failed = @ + FailedIncrement(outcome)]
    /\ UNCHANGED <<pc, pe, dc, fp, hist, nCalls, nFaults>>
    /\ UNCHANGED <<tree, cf, cli, gui>>

\* step 3: apply_libc_patch or revert_libc_patch on the output directory,
\* always with create_backup=False
PatchStepEnter ==
    /\ pc = "ds_sign"
    /\ ds.queue = <<>>
    /\ LET op == PatchStepChoice(ds.cfg)
       IN IF op = "none"
          THEN /\ pc' = "ds_fakelib"
               /\ UNCHANGED <<pe, log, hist>>
          ELSE /\ \E order \in TargetOrders(fs, ds.output) :
                    /\ pe' = PatchEnter(op, ds.output, FALSE, "ds", order)
                    /\ hist' = HistEnter(order)
               /\ log' = Append(log, DirEvent(op, ds.output))
               /\ pc' = "patch"
    /\ UNCHANGED <<fs, dc, ds, fp, nCalls, nFaults>>
    /\ UNCHANGED <<tree, cf, cli, gui>>

\* the patch operation returns into downgrade_and_sign
PatchReturnDs ==
    /\ pc = "patch"
    /\ pe.queue = <<>>
    /\ pe.caller = "ds"
    /\ ds' = [ds EXCEPT
         !.libc_patch.applied = IF pe.op = "apply" THEN pe.cnt.done ELSE @,
         !.libc_patch.reverted = IF pe.op = "revert" THEN pe.cnt.done ELSE @]
    /\ pc' = "ds_fakelib"
    /\ UNCHANGED <<fs, pe, dc, fp, log, hist, nCalls, nFaults>>
    /\ UNCHANGED <<tree, cf, cli, gui>>

\* step 4: _copy_fakelib into the output root and, when it succeeded,
\* _copy_fakelib_to_eboot_dirs, whose loop starts over the eboot.bin files
FakelibStep ==
    /\ pc = "ds_fakelib"
    /\ IF ~ds.cfg.fakelib
       THEN /\ pc' = "ds_return"
            /\ UNCHANGED <<log, ds, tree, nFaults>>
       ELSE \E fault \in CopyFaults(tree, "root", nFaults) :
              \E order \in Orders(EbootFiles(fs, tree, ds.output)) :
                LET r == CopyFakelib(tree, fault)
                IN /\ tree' = r.tree
                   /\ ds' = [ds EXCEPT
                        !.fakelib = [success |-> r.success, message |-> r.message],
                        !.queue = IF r.success /\ tree.source = "dir"
                                  THEN order ELSE <<>>]
                   /\ log' = IF tree.source = "dir"
                             THEN log \o <<DirEvent("fakelib", ds.output),
                                           CopyEvent("root", fault)>>
                             ELSE Append(log, DirEvent("fakelib", ds.output))
                   /\ nFaults' = IF fault = "none" THEN nFaults ELSE nFaults + 1
                   /\ pc' = IF r.success THEN "ds_fakelib_dirs" ELSE "ds_return"
    /\ UNCHANGED <<fs, pe, dc, fp, hist, nCalls, cf, cli, gui>>

\* one iteration of `for eboot_file in eboot_files`
FakelibDirStep ==
    /\ pc = "ds_fakelib_dirs"
    /\ ds.queue # <<>>
    /\ LET loc == Head(ds.queue)[1]
       IN IF SameAsOutputRoot(loc)
          THEN /\ ds' = [ds EXCEPT !.queue = Tail(@)]
               /\ UNCHANGED <<tree, log, nFaults>>
          ELSE \E fault \in CopyFaults(tree, loc, nFaults) :
                 /\ tree' = [tree EXCEPT !.fakelib[loc] = CopyTo(tree, loc, fault)]
                 /\ ds' = [ds EXCEPT
                      !.queue = Tail(@),
                      !.fakelib_copies =
                          IF fault = "none"
                          THEN [created |-> @.created + 1,
                                locations |-> Append(@.locations, loc)]
                          ELSE @]
                 /\ log' = Append(log, CopyEvent(loc, fault))
                 /\ nFaults' = IF fault = "none" THEN nFaults ELSE nFaults + 1
    /\ UNCHANGED <<fs, pc, pe, dc, fp, hist, nCalls, cf, cli, gui>>

\* _copy_fakelib_to_eboot_dirs returns its results
FakelibDirsEnd ==
    /\ pc = "ds_fakelib_dirs"
    /\ ds.queue = <<>>
    /\ pc' = "ds_return"
    /\ UNCHANGED <<fs, pe, dc, ds, fp, log, hist, nCalls, nFaults, tree, cf, cli, gui>>

\* `return results` to the user
DsReturn ==
    /\ pc = "ds_return"
    /\ ds.caller = "user"
    /\ pc' = "done"
    /\ UNCHANGED <<fs, pe, dc, ds, fp, log, hist, nCalls, nFaults>>
    /\ UNCHANGED <<tree, cf, cli, gui>>

----------------------------------------------------------------------------
(* process_full_pipeline *)

\* temp: "none" before mkdtemp, "exists" after it, "removed" after rmtree;
\* exit: how the call that made the temporary directory ended
NoFull ==
    [active |-> FALSE, cfg |-> NoConfig, pre |-> [p \in Paths |-> NoFile],
     aborted |-> FALSE,
     downstream |-> [successful |-> 0, failed |-> 0, marker |-> ""],
     temp |-> "none", exit |-> "none", result |-> FALSE]

AbortOnlyWhenNothingTried(d) == d.successful = 0 /\ d.failed = 0

\* `if decrypt_results['successful'] == 0`
AbortTest(d) == d.successful = 0

\* the user calls process_full_pipeline(in, out, ...): mkdtemp, then
\* decrypt_files(in, tmp, overwrite, save_to_config=False)
FullPipelineCall ==
    /\ pc = "idle"
    /\ CallAllowed("process_full_pipeline")
    /\ nCalls < 1
    /\ \E cfg \in Configs, order \in Orders(SelfFiles(fs, "in")) :
          /\ fp' = [NoFull EXCEPT !.active = TRUE, !.cfg = cfg, !.pre = fs,
                                  !.temp = "exists"]
          /\ dc' = DecryptEnter("in", "tmp", cfg.overwrite, "full", order)
    /\ log' = Append(log, DirEvent("decrypt_files", "in"))
    /\ pc' = "decrypt"
    /\ nCalls' = nCalls + 1
    /\ UNCHANGED <<fs, pe, ds, hist, nFaults>>
    /\ UNCHANGED <<tree, cf, cli, gui>>

\* shutil.rmtree(temp_dir)
RemoveTemp(f) == [p \in Paths |-> IF Under(p, "tmp") THEN NoFile ELSE f[p]]

\* the finally block: `try: shutil.rmtree(temp_dir) except: pass`; an rmtree
\* that raises leaves the directory in place and the exception is dropped
FinallyFs(f, rmtreeFails) == IF rmtreeFails THEN f ELSE RemoveTemp(f)

FinallyTemp(rmtreeFails) == IF rmtreeFails THEN "exists" ELSE "removed"

\* whether one more I/O operation may fail after n faults
FaultBudget(n) == IF n < MaxFaults THEN {FALSE, TRUE} ELSE {FALSE}

\* whether the rmtree of the finally block may fail in this behaviour
RmtreeOutcomes == FaultBudget(nFaults)

\* the call leaves through its finally block, by `return` or by an exception
Leave(how, rmtreeFails) ==
    /\ fs' = FinallyFs(fs, rmtreeFails)
    /\ nFaults' = IF rmtreeFails THEN nFaults + 1 ELSE nFaults
    /\ pc' = IF how = "raise" THEN "raised" ELSE "done"

\* decrypt_files has returned and nothing was decrypted: the abort report
FullAbort ==
    /\ pc = "decrypt"
    /\ dc.queue = <<>>
    /\ dc.caller = "full"
    /\ AbortTest(dc)
    /\ \E rmtreeFails \in RmtreeOutcomes :
          /\ fp' = [fp EXCEPT !.aborted = TRUE,
                              !.downstream = [successful |-> 0, failed |-> 0,
                                              marker |-> "Pipeline aborted"],
                              !.temp = FinallyTemp(rmtreeFails),
                              !.exit = "return"]
          /\ Leave("return", rmtreeFails)
    /\ UNCHANGED <<pe, dc, ds, log, hist, nCalls>>
    /\ UNCHANGED <<tree, cf, cli, gui>>

\* decrypt_files has returned with a success: downgrade_and_sign(tmp, out, ...)
FullDowngradeAndSign ==
    /\ pc = "decrypt"
    /\ dc.queue = <<>>
    /\ dc.caller = "full"
    /\ ~AbortTest(dc)
    /\ IF SaveDirectoriesRaises(cf.file)
       THEN \E rmtreeFails \in RmtreeOutcomes :
               /\ fp' = [fp EXCEPT !.temp = FinallyTemp(rmtreeFails), !.exit = "raise"]
               /\ Leave("raise", rmtreeFails)
               /\ UNCHANGED <<ds, log, cf>>
       ELSE /\ cf' = [cf EXCEPT !.file = SaveDirectories(@, "in", "out")]
            /\ \E order \in ElfOrders(fs, "tmp") :
                  /\ ds' = DsEnter("tmp", "out", fp.cfg, "full", order)
                  /\ pc' = IF order = <<>> THEN "ds_return" ELSE "ds_downgrade"
            /\ log' = Append(log, DirEvent("downgrade_and_sign", "tmp"))
            /\ UNCHANGED <<fs, fp, nFaults>>
    /\ UNCHANGED <<pe, dc, hist, nCalls, tree, cli, gui>>

\* downgrade_and_sign has returned: combine the results, remove the temp dir
FullReturn ==
    /\ pc = "ds_return"
    /\ ds.caller = "full"
    /\ \E rmtreeFails \in RmtreeOutcomes :
          /\ fp' = [fp EXCEPT !.temp = FinallyTemp(rmtreeFails), !.exit = "return"]
          /\ Leave("return", rmtreeFails)
    /\ UNCHANGED <<pe, dc, ds, log, hist, nCalls>>
    /\ UNCHANGED <<tree, cf, cli, gui>>

\* decrypt_files raises out of the full pipeline: output_dir.mkdir or the
\* mkdir of the first output's parent fails, both outside the per-file try
DecryptSetupFailure ==
    /\ pc = "decrypt"
    /\ dc.caller = "full"
    /\ dc.queue # <<>>
    /\ Len(dc.queue) = Cardinality(dc.found)
    /\ nFaults < MaxFaults
    /\ \E rmtreeFails \in FaultBudget(nFaults + 1) :
          /\ fp' = [fp EXCEPT !.temp = FinallyTemp(rmtreeFails), !.exit = "raise"]
          /\ fs' = FinallyFs(fs, rmtreeFails)
          /\ nFaults' = IF rmtreeFails THEN nFaults + 2 ELSE nFaults + 1
    /\ pc' = "raised"
    /\ log' = Append(log, DirEvent("setup_failure", dc.output))
    /\ UNCHANGED <<pe, dc, ds, hist, nCalls>>
    /\ UNCHANGED <<tree, cf, cli, gui>>

\* downgrade_and_sign raises: output_dir.mkdir fails before the signing loop;
\* under process_full_pipeline and sign_file the finally block runs
DsSetupFailure ==
    /\ pc = "ds_downgrade"
    /\ ds.queue = <<>>
    /\ nFaults < MaxFaults
    /\ IF ds.caller = "user"
       THEN /\ UNCHANGED <<fs, fp>>
            /\ nFaults' = nFaults + 1
       ELSE \E rmtreeFails \in FaultBudget(nFaults + 1) :
               /\ fp' = [fp EXCEPT !.temp = FinallyTemp(rmtreeFails),
                                   !.exit = "raise"]
               /\ fs' = FinallyFs(fs, rmtreeFails)
               /\ nFaults' = IF rmtreeFails THEN nFaults + 2 ELSE nFaults + 1
    /\ pc' = "raised"
    /\ log' = Append(log, DirEvent("setup_failure", ds.output))
    /\ UNCHANGED <<pe, dc, ds, hist, nCalls>>
    /\ UNCHANGED <<tree, cf, cli, gui>>

----------------------------------------------------------------------------
(* sign_file: the single-file helper built on downgrade_and_sign *)

\* the configuration sign_file passes to downgrade_and_sign
SignFileConfig(pair) ==
    [sdk_pair |-> pair, apply_libc_patch |-> FALSE,
     auto_revert_for_high_sdk |-> TRUE, overwrite |-> TRUE, fakelib |-> FALSE]

\* sign_file(input_file, output_file, ...): mkdtemp, copy of the input into
\* the temporary directory, then downgrade_and_sign(temp, temp/output, ...)
SignFileCall ==
    /\ pc = "idle"
    /\ nCalls < 1
    /\ \E p \in FilesIn(fs, "in"), pair \in SdkPairs,
          copyFails \in FaultBudget(nFaults) :
          IF copyFails
          THEN \E rmtreeFails \in FaultBudget(nFaults + 1) :
                  /\ fp' = [NoFull EXCEPT !.pre = fs,
                                          !.temp = FinallyTemp(rmtreeFails),
                                          !.exit = "raise"]
                  /\ UNCHANGED <<fs, ds, log>>
                  /\ nFaults' = IF rmtreeFails THEN nFaults + 2 ELSE nFaults + 1
                  /\ pc' = "raised"
          ELSE /\ fs' = [fs EXCEPT ![Mirror(p, "tmp")] = fs[p]]
               /\ fp' = [NoFull EXCEPT !.pre = fs, !.temp = "exists"]
               /\ \E order \in ElfOrders(fs', "tmp") :
                     /\ ds' = DsEnter("tmp", "tmp_out", SignFileConfig(pair),
                                      "sign_file", order)
                     /\ pc' = IF order = <<>> THEN "ds_return" ELSE "ds_downgrade"
               /\ log' = Append(log, DirEvent("downgrade_and_sign", "tmp"))
               /\ UNCHANGED nFaults
    /\ nCalls' = nCalls + 1
    /\ UNCHANGED <<pe, dc, hist>>
    /\ UNCHANGED <<tree, cf, cli, gui>>

\* the signed outputs sign_file looks through, in the order of the report
SignedOutputs ==
    {p \in Paths : ds.signing.files[p] = "Success"}

\* downgrade_and_sign has returned into sign_file: the first successful
\* output is copied to output_file; then the finally block
SignFileReturn ==
    /\ pc = "ds_return"
    /\ ds.caller = "sign_file"
    /\ \E rmtreeFails \in RmtreeOutcomes :
          LET copied == IF ds.signing.successful > 0 /\ SignedOutputs # {}
                        THEN LET p == CHOOSE q \in SignedOutputs : TRUE
                             IN [fs EXCEPT ![Mirror(p, "out")] =
                                              fs[Mirror(p, "tmp_out")]]
                        ELSE fs
          IN /\ fs' = FinallyFs(copied, rmtreeFails)
             /\ nFaults' = IF rmtreeFails THEN nFaults + 1 ELSE nFaults
             /\ fp' = [fp EXCEPT !.temp = FinallyTemp(rmtreeFails),
                                 !.exit = "return",
                                 !.result = (ds.signing.successful > 0
                                               /\ SignedOutputs # {})]
    /\ pc' = "done"
    /\ UNCHANGED <<pe, dc, ds, log, hist, nCalls>>
    /\ UNCHANGED <<tree, cf, cli, gui>>

----------------------------------------------------------------------------
(* The command-line entry points: run_cli and run_interactive_cli *)

\* the operations each entry point can select: --mode decrypt / downgrade /
\* full / libc-patch with --action, and the three choices of the menu
CliOperations(entry) ==
    IF entry = "run_cli"
    THEN {"decrypt_files", "downgrade_and_sign", "process_full_pipeline",
          "apply_libc_patch", "revert_libc_patch", "check_libc_patch_status"}
    ELSE {"decrypt_files", "downgrade_and_sign", "process_full_pipeline"}

\* the reports as the operations build them: the keys the exit tests look
\* for, and the counters under them
DecryptResults ==
    [operation |-> "decrypt", successful |-> dc.successful, failed |-> dc.failed]

DsResults ==
    [operation |-> "downgrade_and_sign",
     downgrade |-> [successful |-> ds.downgrade.successful,
                    failed |-> ds.downgrade.failed],
     signing |-> [successful |-> ds.signing.successful,
                  failed |-> ds.signing.failed],
     libc_patch |-> ds.libc_patch]

AbortedDsResults ==
    [successful |-> 0, failed |-> 0]

FullResults ==
    [operation |-> "full_pipeline", decrypt |-> DecryptResults,
     downgrade_and_sign |-> IF fp.aborted THEN AbortedDsResults ELSE DsResults]

PatchResults ==
    [operation |-> pe.op, done |-> pe.cnt.done, already |-> pe.cnt.already,
     notfound |-> pe.cnt.notfound, failed |-> pe.cnt.failed]

CheckResults ==
    [operation |-> "check_libc_patch_status",
     total_files |-> pe.check.total_files,
     error_files |-> pe.check.error_files]

\* results.get(key, default)
Get(results, key, default) ==
    IF key \in DOMAIN results THEN results[key] ELSE default

\* run_cli: `if results.get('failed', 0) > 0: sys.exit(1) else: sys.exit(0)`
RunCliCode(results) == IF Get(results, "failed", 0) > 0 THEN 1 ELSE 0

\* run_interactive_cli: has_failures = any(results.get(key, {}).get('failed',
\* 0) > 0 for key in ['decrypt', 'downgrade', 'signing'] if key in results)
InteractiveCode(results) ==
    IF \E key \in {"decrypt", "downgrade", "signing"} :
          /\ key \in DOMAIN results
          /\ Get(results[key], "failed", 0) > 0
    THEN 1 ELSE 0

ExitCode(entry, results) ==
    IF entry = "run_cli" THEN RunCliCode(results) ELSE InteractiveCode(results)

\* the operation of the entry point has returned its report
CliReturned ==
    \/ pc = "done"
    \/ pc = "idle" /\ nCalls = 1

\* the report the operation returned
CliResults ==
    CASE cli.operation = "decrypt_files" -> DecryptResults
      [] cli.operation = "downgrade_and_sign" -> DsResults
      [] cli.operation = "process_full_pipeline" -> FullResults
      [] cli.operation = "check_libc_patch_status" -> CheckResults
      [] OTHER -> PatchResults

\* the end of the entry point: the exit test on the returned report, or
\* `except Exception: ... sys.exit(1)` when the operation raised
CliExit ==
    /\ cli.entry # "none"
    /\ ~cli.exited
    /\ CliReturned \/ pc = "raised"
    /\ cli' = [cli EXCEPT !.exited = TRUE,
                          !.code = IF pc = "raised" THEN 1
                                   ELSE ExitCode(cli.entry, CliResults)]
    /\ UNCHANGED <<fs, pc, pe, dc, ds, fp, log, hist, nCalls, nFaults, tree, cf, gui>>

----------------------------------------------------------------------------
(* The desktop GUI (src/Backpork.py): PS5BackportGUI *)

\* one press of RUN: the position of its worker thread, the values the
\* worker reads from the form, its saved stdout, the dialogs it scheduled,
\* whether a processor operation ran, whether that operation raised, and
\* whether processing_finished has run for it
NoRun ==
    [pc |-> "none", mode |-> "none", action |-> "none", params_ok |-> FALSE,
     old_stdout |-> "none", dialogs |-> <<>>, executed |-> FALSE,
     op_raised |-> FALSE, finished |-> FALSE]

\* the methods the class PS5ELFProcessor of the GUI file defines; the rest of
\* the class body is a comment asking for the original methods to be pasted
GuiProcessorMethods ==
    {"_color", "_print", "_is_elf_file", "_is_self_file", "_should_skip_dir",
     "get_supported_sdk_pairs", "parse_ptype"}

\* the class once the public methods of PS5ELFProcessor in src/Backport.py
\* are pasted where the comment asks for them
BackportProcessorMethods ==
    GuiProcessorMethods \cup
       {"decrypt_files", "apply_libc_patch", "revert_libc_patch",
        "check_libc_patch_status", "downgrade_and_sign", "process_full_pipeline"}

\* the window after __init__: run button enabled, sys.stdout the console, the
\* main thread in mainloop, no callback pending, no worker, the log widget
\* written by the main thread only (the two lines of __init__), and the
\* methods of self.processor
NoGui ==
    [button |-> "normal", stdout |-> "console", main |-> "loop", queue |-> <<>>,
     runs |-> [i \in 1..MaxRuns |-> NoRun], started |-> 0, widget |-> {"main"},
     methods |-> GuiProcessorMethods]

Modes == {"Auto Pipeline", "Downgrade & Sign", "Decrypt Only", "Libc Patch"}

LibcActions == {"apply", "revert", "check"}

\* the method worker_thread calls for a mode
MethodCalled(mode, action) ==
    CASE mode = "Auto Pipeline"    -> "decrypt_and_sign_pipeline"
      [] mode = "Downgrade & Sign" -> "downgrade_and_sign"
      [] mode = "Decrypt Only"     -> "decrypt_files"
      [] action = "apply"          -> "apply_libc_patch"
      [] action = "revert"         -> "revert_libc_patch"
      [] OTHER                     -> "check_libc_patch_status"

StartedButtonNormal == "normal"

\* self.run_button.config(state="disabled")
StartedButton == "disabled"

\* the worker threads that have not left worker_thread
Live == {i \in 1..MaxRuns : gui.runs[i].pc \notin {"none", "exited"}}

\* root.after(0, callback), called for run i
After(queue, cb, i) == Append(queue, [cb |-> cb, run |-> i])

RECURSIVE AfterLogs(_, _, _)
\* Capture.write: one root.after(0, ... self.gui.log(t)) per printed line
AfterLogs(queue, n, i) ==
    IF n = 0 THEN queue ELSE AfterLogs(After(queue, "log", i), n - 1, i)

\* the user presses RUN: start_processing, on the main thread
StartProcessing ==
    /\ gui.main = "loop"
    /\ gui.button = "normal"
    /\ gui.started < MaxRuns
    /\ \E dirs_ok \in BOOLEAN, mode \in Modes, action \in LibcActions,
          params_ok \in BOOLEAN :
          IF ~dirs_ok
          THEN gui' = [gui EXCEPT !.main = "dialog"]
          ELSE gui' = [gui EXCEPT
                  !.button = StartedButton,
                  !.started = @ + 1,
                  !.runs[gui.started + 1] =
                      [NoRun EXCEPT !.pc = "created", !.mode = mode,
                                    !.action = IF mode = "Libc Patch"
                                               THEN action ELSE "none",
                                    !.params_ok = params_ok]]
    /\ UNCHANGED <<fs, pc, pe, dc, ds, fp, log, hist, nCalls, nFaults, tree, cf, cli>>

\* worker_thread: old_stdout = sys.stdout; sys.stdout = Capture(self)
WorkerCapture ==
    /\ \E i \in 1..MaxRuns :
          /\ gui.runs[i].pc = "created"
          /\ gui' = [gui EXCEPT !.runs[i].old_stdout = gui.stdout,
                                !.runs[i].pc = "try",
                                !.stdout = "capture"]
    /\ UNCHANGED <<fs, pc, pe, dc, ds, fp, log, hist, nCalls, nFaults, tree, cf, cli>>

\* the head of the try block: the form is read, int(self.paid.get(), 0) and
\* parse_ptype may raise; then self.log("Starting ..."), called by the worker
WorkerParse ==
    /\ \E i \in 1..MaxRuns :
          /\ gui.runs[i].pc = "try"
          /\ gui' = IF gui.runs[i].params_ok
                    THEN [gui EXCEPT !.runs[i].pc = "dispatch",
                                     !.widget = @ \cup {"worker"}]
                    ELSE [gui EXCEPT !.runs[i].pc = "except"]
    /\ UNCHANGED <<fs, pc, pe, dc, ds, fp, log, hist, nCalls, nFaults, tree, cf, cli>>

\* the call of the processor method of the mode: AttributeError when the
\* class has no such method; otherwise the operation prints, then returns
\* (root.after(0, showinfo "Done")) or raises
WorkerDispatch ==
    /\ \E i \in 1..MaxRuns :
          /\ gui.runs[i].pc = "dispatch"
          /\ IF MethodCalled(gui.runs[i].mode, gui.runs[i].action)
                   \notin gui.methods
             THEN gui' = [gui EXCEPT !.runs[i].pc = "except"]
             ELSE \E prints \in 0..MaxPrints, outcome \in {"return", "raise"} :
                    gui' = IF outcome = "return"
                           THEN [gui EXCEPT
                                   !.queue = After(AfterLogs(@, prints, i), "showinfo", i),
                                   !.runs[i].executed = TRUE,
                                   !.runs[i].dialogs = Append(@, "Done"),
                                   !.runs[i].pc = "finally"]
                           ELSE [gui EXCEPT
                                   !.queue = AfterLogs(@, prints, i),
                                   !.runs[i].executed = TRUE,
                                   !.runs[i].op_raised = TRUE,
                                   !.runs[i].pc = "except"]
    /\ UNCHANGED <<fs, pc, pe, dc, ds, fp, log, hist, nCalls, nFaults, tree, cf, cli>>

\* except Exception: self.log(...) twice, called by the worker, then
\* root.after(0, showerror "Error")
WorkerExcept ==
    /\ \E i \in 1..MaxRuns :
          /\ gui.runs[i].pc = "except"
          /\ gui' = [gui EXCEPT !.widget = @ \cup {"worker"},
                                !.queue = After(@, "showerror", i),
                                !.runs[i].dialogs = Append(@, "Error"),
                                !.runs[i].pc = "finally"]
    /\ UNCHANGED <<fs, pc, pe, dc, ds, fp, log, hist, nCalls, nFaults, tree, cf, cli>>

WorkerFinallyNoCallback ==
    /\ \E i \in 1..MaxRuns :
          /\ gui.runs[i].pc = "finally"
          /\ gui' = [gui EXCEPT !.stdout = gui.runs[i].old_stdout,
                                !.runs[i].pc = "exited"]
    /\ UNCHANGED <<fs, pc, pe, dc, ds, fp, log, hist, nCalls, nFaults, tree, cf, cli>>

\* finally: sys.stdout = old_stdout; root.after(0, self.processing_finished)
WorkerFinally ==
    /\ \E i \in 1..MaxRuns :
          /\ gui.runs[i].pc = "finally"
          /\ gui' = [gui EXCEPT !.stdout = gui.runs[i].old_stdout,
                                !.queue = After(@, "processing_finished", i),
                                !.runs[i].pc = "exited"]
    /\ UNCHANGED <<fs, pc, pe, dc, ds, fp, log, hist, nCalls, nFaults, tree, cf, cli>>

\* the event loop of the main thread runs the oldest pending callback: a
\* log line, a dialog (modal until dismissed), or processing_finished
AfterCallback ==
    /\ gui.queue # <<>>
    /\ LET c == Head(gui.queue)
       IN gui' = CASE c.cb = "log" ->
                        [gui EXCEPT !.queue = Tail(@), !.widget = @ \cup {"main"}]
                   [] c.cb \in {"showinfo", "showerror"} ->
                        [gui EXCEPT !.queue = Tail(@), !.main = "dialog"]
                   [] OTHER ->
                        [gui EXCEPT !.queue = Tail(@), !.button = "normal",
                                    !.runs[c.run].finished = TRUE]
    /\ UNCHANGED <<fs, pc, pe, dc, ds, fp, log, hist, nCalls, nFaults, tree, cf, cli>>

\* the user closes the dialog
DismissDialog ==
    /\ gui.main = "dialog"
    /\ gui' = [gui EXCEPT !.main = "loop"]
    /\ UNCHANGED <<fs, pc, pe, dc, ds, fp, log, hist, nCalls, nFaults, tree, cf, cli>>

----------------------------------------------------------------------------
(* Initial states *)

Bodies ==
    { <<"x">> \o LIBC_PATCH_PATTERN \o <<"y">>,
      LIBC_PATCH_PATTERN \o <<"4">> \o LIBC_PATCH_PATTERN,
      <<"x">> \o LIBC_PATCH_REPLACEMENT,
      LIBC_PATCH_PATTERN \o LIBC_PATCH_REPLACEMENT,
      <<"x", "y">> }

SelfContents == {<<"4F153D1D">> \o b : b \in Bodies}

EmptyFs == [p \in Paths |-> NoFile]

\* a directory of signed files, no call made yet
InitPatch ==
    /\ \E e \in SelfContents \cup {NoFile},
          l \in {<<"5414F5EE">> \o <<"x">> \o LIBC_PATCH_PATTERN,
                 <<ELF_MAGIC>> \o LIBC_PATCH_REPLACEMENT \o <<"y">>, NoFile} :
          fs = [EmptyFs EXCEPT ![<<"out", "eboot", ".bin">>] = e,
                               ![<<"out", "libc", ".prx">>] = l]
    /\ pc = "idle"
    /\ pe = NoPatch
    /\ dc = NoDecrypt
    /\ ds = NoDs
    /\ fp = NoFull
    /\ log = <<>>
    /\ hist = NoHist
    /\ nCalls = 0
    /\ nFaults = 0
    /\ tree = PlainTree
    /\ cf = SavedConfig
    /\ gui = NoGui
    /\ cli = NoCli

NextPatch == ApplyCall \/ RevertCall \/ PatchFileStep \/ PatchReturn

SpecPatch == InitPatch /\ [][NextPatch]_vars

\* the status check, run before and after apply_libc_patch
NextCheck == CheckCall \/ ApplyCall \/ PatchFileStep \/ PatchReturn

SpecCheck == InitPatch /\ [][NextCheck]_vars

\* bodies of the files of the input directory
InputBodies ==
    { <<"x">> \o LIBC_PATCH_PATTERN \o <<"y">>,
      <<"x">> \o LIBC_PATCH_REPLACEMENT }

InputContents ==
    {<<ELF_MAGIC>> \o b : b \in InputBodies}
       \cup {<<"4F153D1D">> \o b : b \in InputBodies}
       \cup {NoFile}

\* an input directory of executables and containers, an output directory
\* that may hold a container left by an earlier run, no call made yet
InitPipe ==
    /\ \E e \in InputContents,
          l \in {<<ELF_MAGIC, "x">> \o LIBC_PATCH_REPLACEMENT,
                 <<"5414F5EE", "x">> \o LIBC_PATCH_PATTERN, NoFile},
          o \in {NoFile, <<"5414F5EE">> \o LIBC_PATCH_REPLACEMENT} :
          fs = [EmptyFs EXCEPT ![<<"in", "eboot", ".bin">>] = e,
                               ![<<"in", "libc", ".prx">>] = l,
                               ![<<"out", "eboot", ".bin">>] = o]
    /\ pc = "idle"
    /\ pe = NoPatch
    /\ dc = NoDecrypt
    /\ ds = NoDs
    /\ fp = NoFull
    /\ log = <<>>
    /\ hist = NoHist
    /\ nCalls = 0
    /\ nFaults = 0
    /\ tree = PlainTree
    /\ cf = SavedConfig
    /\ gui = NoGui
    /\ cli = NoCli

NextPipe ==
    \/ DowngradeAndSignCall \/ DowngradeStep \/ DowngradeLoopEnd \/ SignStep
    \/ PatchStepEnter \/ PatchFileStep \/ PatchReturnDs
    \/ FakelibStep \/ FakelibDirStep \/ FakelibDirsEnd \/ DsReturn
    \/ FullPipelineCall \/ DecryptStep \/ FullAbort \/ FullDowngradeAndSign
    \/ FullReturn

SpecPipe == InitPipe /\ [][NextPipe]_vars

\* directories that hold, next to their executables, '.bak' files whose
\* content starts with a magic; no call made yet
InitScan ==
    /\ \E e \in {<<ELF_MAGIC, "x">> \o LIBC_PATCH_PATTERN,
                  <<"4F153D1D", "x">> \o LIBC_PATCH_PATTERN},
          b \in {<<ELF_MAGIC, "y">>, <<"5414F5EE", "x">> \o LIBC_PATCH_PATTERN, NoFile},
          l \in {<<ELF_MAGIC, "x">> \o LIBC_PATCH_REPLACEMENT, NoFile},
          o \in {<<"4F153D1D", "x">> \o LIBC_PATCH_PATTERN, NoFile} :
          fs = [EmptyFs EXCEPT ![<<"in", "eboot", ".bin">>] = e,
                               ![<<"in", "eboot", ".bak">>] = b,
                               ![<<"in", "libc", ".prx">>] = l,
                               ![<<"out", "eboot", ".bin">>] =
                                     <<"4F153D1D", "x">> \o LIBC_PATCH_PATTERN,
                               ![<<"out", "eboot", ".bak">>] = o]
    /\ pc = "idle"
    /\ pe = NoPatch
    /\ dc = NoDecrypt
    /\ ds = NoDs
    /\ fp = NoFull
    /\ log = <<>>
    /\ hist = NoHist
    /\ nCalls = 0
    /\ nFaults = 0
    /\ tree = PlainTree
    /\ cf = SavedConfig
    /\ gui = NoGui
    /\ cli = NoCli

\* the five operations that pick their files by walking a directory
NextScan ==
    \/ ApplyCall \/ RevertCall \/ CheckCall \/ PatchFileStep \/ PatchReturn
    \/ DecryptCall \/ DecryptStep \/ DecryptReturn
    \/ DowngradeAndSignCall \/ DowngradeStep \/ DowngradeLoopEnd \/ SignStep
    \/ PatchStepEnter \/ PatchReturnDs \/ FakelibStep \/ FakelibDirStep \/ FakelibDirsEnd \/ DsReturn

SpecScan == InitScan /\ [][NextScan]_vars

\* an output root with sub-directories that hold eboot.bin files under
\* several spellings and fakelib directories of an earlier run
InitFakelib ==
    /\ \E e \in {<<ELF_MAGIC, "x">> \o LIBC_PATCH_PATTERN, NoFile} :
          fs = [EmptyFs EXCEPT ![<<"in", "eboot", ".bin">>] = e]
    /\ \E source \in {"missing", "file", "dir"},
          n1 \in SUBSET {"eboot.bin", "EBOOT.BIN"},
          n2 \in {{"eboot.bin"}, {"param.sfo"}},
          old \in {"none", "old"} :
          tree = [source |-> source,
                  names |-> [d \in SubDirs |-> IF d = "sub1" THEN n1 ELSE n2],
                  fakelib |-> [l \in Locations |->
                                 IF l \in {"root", "sub1"} THEN old ELSE "none"]]
    /\ pc = "idle"
    /\ pe = NoPatch
    /\ dc = NoDecrypt
    /\ ds = NoDs
    /\ fp = NoFull
    /\ log = <<>>
    /\ hist = NoHist
    /\ nCalls = 0
    /\ nFaults = 0
    /\ cf = SavedConfig
    /\ gui = NoGui
    /\ cli = NoCli

\* downgrade_and_sign with its fakelib step
NextFakelib ==
    \/ DowngradeAndSignCall \/ DowngradeStep \/ DowngradeLoopEnd \/ SignStep
    \/ PatchStepEnter \/ PatchFileStep \/ PatchReturnDs
    \/ FakelibStep \/ FakelibDirStep \/ FakelibDirsEnd \/ DsReturn

SpecFakelib == InitFakelib /\ [][NextFakelib]_vars

\* a configuration file in any of its states, an input directory, no call
\* made yet
InitConfig ==
    /\ \E e \in {<<"4F153D1D", "x">> \o LIBC_PATCH_PATTERN,
                  <<ELF_MAGIC, "x">> \o LIBC_PATCH_PATTERN} :
          fs = [EmptyFs EXCEPT ![<<"in", "eboot", ".bin">>] = e]
    /\ \E kind \in ConfigKinds :
          cf = [file |-> ConfigFile(kind,
                                    IF kind = "saved" THEN "old_in" ELSE "",
                                    IF kind = "saved" THEN "old_out" ELSE ""),
                result |-> <<"none", "none">>]
    /\ pc = "idle"
    /\ pe = NoPatch
    /\ dc = NoDecrypt
    /\ ds = NoDs
    /\ fp = NoFull
    /\ log = <<>>
    /\ hist = NoHist
    /\ nCalls = 0
    /\ nFaults = 0
    /\ tree = PlainTree
    /\ cli = NoCli
    /\ gui = NoGui

\* the operations that read or write the configuration file
NextConfig ==
    \/ GetLastDirectoriesCall
    \/ DecryptCall \/ DecryptStep \/ DecryptReturn
    \/ DowngradeAndSignCall \/ DowngradeStep \/ DowngradeLoopEnd \/ SignStep
    \/ PatchStepEnter \/ PatchFileStep \/ PatchReturnDs
    \/ FakelibStep \/ FakelibDirStep \/ FakelibDirsEnd \/ DsReturn

SpecConfig == InitConfig /\ [][NextConfig]_vars

\* an entry point started with its arguments, an input directory holding an
\* executable or a container, a directory of signed files for libc-patch
InitCli ==
    /\ \E e \in {<<"4F153D1D", "x">> \o LIBC_PATCH_PATTERN,
                  <<ELF_MAGIC, "x">> \o LIBC_PATCH_PATTERN},
          o \in {<<"4F153D1D", "x">> \o LIBC_PATCH_PATTERN, NoFile} :
          fs = [EmptyFs EXCEPT ![<<"in", "eboot", ".bin">>] = e,
                               ![<<"out", "libc", ".prx">>] = o]
    /\ \E entry \in {"run_cli", "run_interactive_cli"} :
          \E operation \in CliOperations(entry) :
             cli = [NoCli EXCEPT !.entry = entry, !.operation = operation]
    /\ pc = "idle"
    /\ pe = NoPatch
    /\ dc = NoDecrypt
    /\ ds = NoDs
    /\ fp = NoFull
    /\ log = <<>>
    /\ hist = NoHist
    /\ nCalls = 0
    /\ nFaults = 0
    /\ tree = PlainTree
    /\ cf = [file |-> ConfigFile("missing", "", ""), result |-> <<"none", "none">>]
    /\ gui = NoGui

\* one run of an entry point: the operation it selects, then the exit
NextCli ==
    \/ DecryptCall \/ DecryptStep \/ DecryptReturn
    \/ DowngradeAndSignCall \/ DowngradeStep \/ DowngradeLoopEnd \/ SignStep
    \/ PatchStepEnter \/ PatchFileStep \/ PatchReturnDs
    \/ FakelibStep \/ FakelibDirStep \/ FakelibDirsEnd \/ DsReturn
    \/ FullPipelineCall \/ FullAbort \/ FullDowngradeAndSign \/ FullReturn
    \/ ApplyCall \/ RevertCall \/ CheckCall \/ PatchReturn
    \/ CliExit

SpecCli == InitCli /\ [][NextCli]_vars

\* two executables in the input directory, an output directory that may hold
\* a signed file of an earlier run, a fakelib source and one eboot.bin
\* directory under the output
InitOrder ==
    /\ \E o \in {<<"4F153D1D", "x">> \o LIBC_PATCH_PATTERN, NoFile} :
          fs = [EmptyFs EXCEPT
                  ![<<"in", "eboot", ".bin">>] = <<ELF_MAGIC, "x">> \o LIBC_PATCH_PATTERN,
                  ![<<"in", "libc", ".prx">>] = <<ELF_MAGIC, "y">> \o LIBC_PATCH_REPLACEMENT,
                  ![<<"out", "libc", ".bin">>] = o]
    /\ tree = [PlainTree EXCEPT !.names["sub1"] = {"eboot.bin"}]
    /\ pc = "idle"
    /\ pe = NoPatch
    /\ dc = NoDecrypt
    /\ ds = NoDs
    /\ fp = NoFull
    /\ log = <<>>
    /\ hist = NoHist
    /\ nCalls = 0
    /\ nFaults = 0
    /\ cf = SavedConfig
    /\ gui = NoGui
    /\ cli = NoCli

\* the four steps of downgrade_and_sign over two files
NextOrder ==
    \/ DowngradeAndSignCall \/ DowngradeStep \/ DowngradeLoopEnd \/ SignStep
    \/ PatchStepEnter \/ PatchFileStep \/ PatchReturnDs
    \/ FakelibStep \/ FakelibDirStep \/ FakelibDirsEnd \/ DsReturn

SpecOrder == InitOrder /\ [][NextOrder]_vars

\* the window as __init__ leaves it, with the processor class as the GUI
\* file has it or completed from src/Backport.py
InitGui ==
    /\ \E methods \in {GuiProcessorMethods, BackportProcessorMethods} :
          gui = [NoGui EXCEPT !.methods = methods]
    /\ fs = EmptyFs
    /\ pc = "idle"
    /\ pe = NoPatch
    /\ dc = NoDecrypt
    /\ ds = NoDs
    /\ fp = NoFull
    /\ log = <<>>
    /\ hist = NoHist
    /\ nCalls = 0
    /\ nFaults = 0
    /\ tree = PlainTree
    /\ cf = SavedConfig
    /\ cli = NoCli

\* the main thread and the worker threads
NextGui ==
    \/ StartProcessing \/ WorkerCapture \/ WorkerParse \/ WorkerDispatch
    \/ WorkerExcept \/ WorkerFinally \/ AfterCallback \/ DismissDialog

SpecGui == InitGui /\ [][NextGui]_vars

\* a started thread keeps running and mainloop keeps serving its callbacks
FairGui ==
    /\ WF_vars(WorkerCapture) /\ WF_vars(WorkerParse) /\ WF_vars(WorkerDispatch)
    /\ WF_vars(WorkerExcept) /\ WF_vars(WorkerFinally) /\ WF_vars(AfterCallback)

SpecGuiFair == SpecGui /\ FairGui

\* an input directory for the calls that work through a temporary
\* directory, an empty output directory, no call made yet
InitTemp ==
    /\ \E e \in {<<"4F153D1D", "x">> \o LIBC_PATCH_PATTERN,
                  <<ELF_MAGIC, "x">> \o LIBC_PATCH_PATTERN, NoFile},
          l \in {<<"5414F5EE", "x">> \o LIBC_PATCH_REPLACEMENT, NoFile} :
          fs = [EmptyFs EXCEPT ![<<"in", "eboot", ".bin">>] = e,
                               ![<<"in", "libc", ".prx">>] = l]
    /\ pc = "idle"
    /\ pe = NoPatch
    /\ dc = NoDecrypt
    /\ ds = NoDs
    /\ fp = NoFull
    /\ log = <<>>
    /\ hist = NoHist
    /\ nCalls = 0
    /\ nFaults = 0
    /\ tree = PlainTree
    /\ cf = SavedConfig
    /\ gui = NoGui
    /\ cli = NoCli

\* process_full_pipeline and sign_file, with the setup failures of their stages
NextTemp ==
    \/ FullPipelineCall \/ DecryptStep \/ DecryptSetupFailure \/ FullAbort
    \/ FullDowngradeAndSign \/ DowngradeStep \/ DowngradeLoopEnd
    \/ DsSetupFailure \/ SignStep \/ PatchStepEnter \/ PatchFileStep
    \/ PatchReturnDs \/ FakelibStep \/ FakelibDirStep \/ FakelibDirsEnd \/ FullReturn
    \/ SignFileCall \/ SignFileReturn

SpecTemp == InitTemp /\ [][NextTemp]_vars

----------------------------------------------------------------------------
(* Claims about the patch engine, checked under SpecPatch *)

\* a call of op made by the user has returned
Returned(op) == pc = "idle" /\ pe.op = op

\* search pattern absent, replacement present
Converted(c, op) ==
    /\ c # NoFile
    /\ ~Contains(PatchSpec(op).search, c)
    /\ Contains(PatchSpec(op).repl, c)

FailedStatus == {"failed", "error"}

\* C1: when apply_libc_patch or revert_libc_patch called with create_backup
\* returns, every target file is fully converted or byte-equal to its content
\* before the call, and a file reported converted is converted; a target that
\* is neither converted nor skipped is counted as failed.
C1_ConvertedOrUntouched ==
    \A op \in {"apply", "revert"} :
       (Returned(op) /\ pe.backup) =>
          \A p \in hist.targets :
             /\ Converted(fs[p], op) \/ fs[p] = hist.pre[p]
             /\ pe.files[p] = PatchSpec(op).done => Converted(fs[p], op)
             /\ (hist.fault /\ ~Converted(fs[p], op)
                   /\ pe.files[p] \notin {PatchSpec(op).already, PatchSpec(op).notfound})
                  => pe.files[p] \in FailedStatus

\* C3: a file that apply_libc_patch reported as applied is reported as
\* already_patched by the apply_libc_patch call that follows it.
C3_SecondApplyAlreadyPatched ==
    (Returned("apply") /\ hist.prev.op = "apply" /\ ~hist.fault) =>
       \A p \in hist.targets :
          hist.prev.files[p] = "applied" => pe.files[p] = "already_patched"

\* no fault was injected and no file ended in an exception, in the call that
\* has returned and in the one before it
NoIoError ==
    /\ ~hist.fault
    /\ ~hist.prev.fault
    /\ \A p \in Paths : pe.files[p] # "error" /\ hist.prev.files[p] # "error"

\* C4: apply_libc_patch followed by revert_libc_patch, without I/O error,
\* leaves every target file that held the original pattern byte-equal to its
\* content before the apply.
C4_RoundTrip ==
    (Returned("revert") /\ hist.prev.op = "apply" /\ NoIoError) =>
       \A p \in hist.prev.targets :
          Contains(LIBC_PATCH_PATTERN, hist.prev.pre[p]) => fs[p] = hist.prev.pre[p]

\* a file was patched by the apply and restored by the revert that followed
C4_Witness ==
    /\ Returned("revert")
    /\ hist.prev.op = "apply"
    /\ NoIoError
    /\ \E p \in hist.prev.targets :
          /\ hist.prev.files[p] = "applied"
          /\ pe.files[p] = "reverted"
          /\ Contains(LIBC_PATCH_PATTERN \o <<"4">> \o LIBC_PATCH_PATTERN, fs[p])

\* C5: apply_libc_patch (revert_libc_patch) never changes the bytes of a
\* target file that lacks its search pattern or holds both patterns.
C5_SkippedFilesUntouched ==
    \A op \in {"apply", "revert"} :
       Returned(op) =>
          \A p \in hist.targets :
             (\/ ~Contains(PatchSpec(op).search, hist.pre[p])
              \/ Contains(PatchSpec(op).repl, hist.pre[p]))
                => fs[p] = hist.pre[p]

----------------------------------------------------------------------------
(* Claims about the pipelines, checked under SpecPipe *)

\* downgrade_and_sign, called by the user or by the full pipeline, has returned
DsReturned == pc = "done" /\ ds.caller # "none"

\* the ELF files downgrade_and_sign found under its input
ElfFound == {ds.elf_files[i] : i \in 1..Len(ds.elf_files)}

\* the signing loop of downgrade_and_sign is over
SigningOver ==
    /\ ds.caller # "none"
    /\ pc \in {"patch", "ds_fakelib", "ds_fakelib_dirs", "ds_return", "done"}

DowngradeFailed(p) == ds.downgrade.files[p] \in {"Failed", "Error"}

\* the output of p existed when downgrade_and_sign was entered and may not be
\* overwritten
OutputKept(p) == Exists(ds.pre, Mirror(p, ds.output)) /\ ~ds.cfg.overwrite

\* C2: every output file on which the patch step of downgrade_and_sign failed
\* has, when the invocation ends, the content it had before the patch step.
C2_FailedPatchRestored ==
    (DsReturned /\ pe.caller = "ds") =>
       \A p \in hist.targets :
          pe.files[p] \in FailedStatus => fs[p] = hist.pre[p]

C7_FailedDecryptSuppressed ==
    fp.active =>
       \A p \in dc.found :
          dc.files[p] \in {"Failed", "Error"} =>
             /\ ~Happened("patcher", Mirror(p, "tmp"))
             /\ ~Happened("signer", Mirror(p, "tmp"))

\* the configuration is in the low range with patching enabled and the
\* invocation found an ELF file
LowRange ==
    /\ ds.caller # "none"
    /\ ds.elf_files # <<>>
    /\ ds.cfg.sdk_pair <= 6
    /\ ds.cfg.apply_libc_patch

\* C8: in the low range with patching enabled apply_libc_patch is invoked
\* exactly once, on the output directory, after the signing loop, and
\* revert_libc_patch is not invoked.
C8_LowRangeApplyOnce ==
    LowRange =>
       /\ Count("revert") = 0
       /\ Count("apply") <= 1
       /\ Count("apply") = 1 <=> SigningOver
       /\ \A i \in 1..Len(log) :
             log[i].ev = "apply" =>
                /\ log[i].p = <<ds.output, "*", "*">>
                /\ log[i].p[1] # ds.input
                /\ pe.dir = ds.output
                /\ \A j \in 1..Len(log) : log[j].ev = "signer" => j < i

\* the invocation has ended after one apply on signed output
C8_Witness ==
    /\ DsReturned
    /\ LowRange
    /\ Count("apply") = 1
    /\ Count("signer") >= 1
    /\ \E p \in hist.targets : pe.files[p] = "applied"

\* C9: with a pair above 6 and auto-revert enabled, whatever the apply-patch
\* option, revert_libc_patch is invoked on the output directory and
\* apply_libc_patch is not.
C9_HighRangeRevert ==
    (/\ DsReturned
     /\ ds.elf_files # <<>>
     /\ ds.cfg.sdk_pair > 6
     /\ ds.cfg.auto_revert_for_high_sdk) =>
       /\ Count("apply") = 0
       /\ \E i \in 1..Len(log) : log[i] = DirEvent("revert", ds.output)

\* the stages that follow the decrypt stage in the full pipeline
Downstream == {"downgrade_and_sign", "patcher", "signer", "apply", "revert", "fakelib"}

\* C10: when the decrypt stage of the full pipeline reports no successful
\* file, nothing downstream is invoked and the report carries zero counters
\* and the abort marker; with no SELF file under the input the decrypt
\* counters are both zero.
C10_AbortOnEmptyDecrypt ==
    fp.active =>
       /\ dc.successful = 0 =>
             /\ \A i \in 1..Len(log) : log[i].ev \notin Downstream
             /\ ds = NoDs
             /\ pc = "done" =>
                   /\ fp.aborted
                   /\ fp.downstream =
                        [successful |-> 0, failed |-> 0, marker |-> "Pipeline aborted"]
       /\ (pc = "done" /\ dc.successful > 0) => ~fp.aborted
       /\ SelfFiles(fp.pre, "in") = {} => (dc.successful = 0 /\ dc.failed = 0)

\* the pipeline aborted after every decrypt failed
C10_Witness ==
    /\ fp.active
    /\ pc = "done"
    /\ fp.aborted
    /\ dc.failed >= 1
    /\ dc.successful = 0

\* the calls of a collaborator that ended in one of the given outcomes
Calls(kind, outcomes) ==
    {i \in 1..Len(log) : log[i].ev = kind /\ log[i].res \in outcomes}

\* the collaborator raised while processing p
Raised(kind, p) == \E i \in Calls(kind, {"raise"}) : log[i].p = p

\* the files the signing loop skipped for their failed downgrade
SkippedForDowngrade ==
    {p \in Paths : ds.signing.files[p] = "Skipped due to downgrade failure"}

DecryptOver == dc.caller # "none" /\ dc.queue = <<>>

DowngradeOver == ds.caller # "none" /\ pc # "ds_downgrade"

\* C12: an exception of the decoder, the version patcher or the signer on one
\* file is recorded as that file's failed entry, counted once in the failed
\* counter of the stage, and every remaining file of the stage is still
\* processed; a stage raises only when its setup fails, never for a
\* collaborator's exception.
C12_FailureIsolated ==
    /\ \A p \in Paths :
          /\ Raised("decoder", p) => dc.files[p] = "Error"
          /\ Raised("patcher", p) => ds.downgrade.files[p] = "Error"
          /\ Raised("signer", p) => ds.signing.files[p] = "Error"
    /\ dc.failed = Cardinality(Calls("decoder", {"fail", "raise"}))
    /\ ds.downgrade.failed = Cardinality(Calls("patcher", {"fail", "raise"}))
    /\ ds.signing.failed = Cardinality(Calls("signer", {"fail", "raise"}))
                              + Cardinality(SkippedForDowngrade)
    /\ DecryptOver =>
          \A p \in dc.found :
             \/ Happened("decoder", p)
             \/ Exists(fp.pre, Mirror(p, dc.output)) /\ ~dc.overwrite
    /\ DowngradeOver => \A p \in ElfFound : Happened("patcher", p)
    /\ SigningOver =>
          \A p \in ElfFound :
             \/ Happened("signer", p)
             \/ p \in SkippedForDowngrade
             \/ OutputKept(p)
    /\ pc = "raised" => nFaults > 0

\* downgrade_and_sign returned its report after a collaborator raised on one
\* file and another file went through the same stage
C12_Witness ==
    /\ DsReturned
    /\ \E p, q \in ElfFound, kind \in {"patcher", "signer"} :
          /\ p # q
          /\ Raised(kind, p)
          /\ \E i, j \in 1..Len(log) :
                /\ i < j
                /\ log[i] = Event(kind, p, "raise")
                /\ log[j] = Event(kind, q, "ok")

----------------------------------------------------------------------------
(* Claims about the choice of the files to process *)

Elems(q) == {q[i] : i \in 1..Len(q)}

\* the files listed in the report of check_libc_patch_status
CheckedFiles ==
    Elems(pe.check.original_files) \cup Elems(pe.check.patched_files)
       \cup Elems(pe.check.both_patterns_files)
       \cup Elems(pe.check.no_pattern_files) \cup Elems(pe.check.error_files)

\* p is in the file set of the current or last decrypt_files,
\* downgrade_and_sign, apply_libc_patch, revert_libc_patch or
\* check_libc_patch_status
Selected(p) ==
    \/ p \in dc.found
    \/ p \in ElfFound
    \/ p \in hist.targets
    \/ p \in CheckedFiles

\* C13: a file whose name ends with '.bak' is in the file set of none of the
\* five operations, whatever its first four bytes.
C13_BakNeverSelected ==
    \A p \in Paths : p[3] = ".bak" => ~Selected(p)

\* an operation has picked its files in a directory that holds a '.bak' file
\* starting with a magic
C13_Witness ==
    \E p, q \in Paths :
       /\ p[3] = ".bak"
       /\ Magic(fs[p]) \in SELF_MAGICS \cup {ELF_MAGIC}
       /\ DirOf(q) = DirOf(p)
       /\ Selected(q)
       /\ pc \in {"idle", "done"}

\* C14: no backup of the patch engine, apply backup ('.bak') or revert backup
\* ('.revert_bak'), is in the file set of a later operation.
C14_BackupNeverSelected ==
    \A p \in Paths :
       p[3] \in {APPLY_BACKUP_SUFFIX, REVERT_BACKUP_SUFFIX} => ~Selected(p)

\* how many times p occurs in the list q
Occurrences(q, p) == Cardinality({i \in 1..Len(q) : q[i] = p})

\* how many entries the five lists hold for p
Listed(p) ==
    Occurrences(pe.check.original_files, p) + Occurrences(pe.check.patched_files, p)
       + Occurrences(pe.check.both_patterns_files, p)
       + Occurrences(pe.check.no_pattern_files, p)
       + Occurrences(pe.check.error_files, p)

----------------------------------------------------------------------------
(* Claims about the temporary directory, checked under SpecTemp *)

\* a call that made a temporary directory has returned or raised
TempCallOver == pc \in {"done", "raised"} /\ fp.temp # "none"

\* C11: when process_full_pipeline or sign_file has returned or raised, the
\* temporary directory it made does not exist any more, nor any file in it.
C11_TempRemoved ==
    TempCallOver => (fp.temp = "removed" /\ FilesIn(fs, "tmp") = {})

----------------------------------------------------------------------------
(* Claims about the fakelib copies, checked under SpecFakelib *)

\* the sub-directories of the output root that hold a file named eboot.bin
\* under any spelling
MarkerDirs == {d \in SubDirs : \E n \in tree.names[d] : IsEbootName(n)}

\* the copies attempted into a location, and those that failed
CopiesInto(loc) ==
    {i \in 1..Len(log) : log[i].ev = "copy" /\ log[i].p = <<"out", loc, "fakelib">>}

CopyFailed(loc) == \E i \in CopiesInto(loc) : log[i].res = "copy_failed"

\* downgrade_and_sign has returned after a fakelib step with a source directory
FakelibRan == DsReturned /\ ds.cfg.fakelib /\ ds.elf_files # <<>> /\ tree.source = "dir"

\* C16: a failed copy, into the output root or into a marker directory, does
\* not keep the copies into the other locations from being attempted.
C16_CopiesIndependent ==
    FakelibRan =>
       /\ CopiesInto("root") # {}
       /\ \A d \in MarkerDirs : CopiesInto(d) # {}

\* the locations the returned structure reports as failed: results holds
\* 'created' and 'locations' (the successful copies) and nothing else
ReportedFailed(copies) == {}

\* C17: every failed copy into a marker directory is reported for its
\* location in the fakelib_copies part of the report.
C17_FailuresReported ==
    FakelibRan =>
       \A d \in MarkerDirs : CopyFailed(d) => d \in ReportedFailed(ds.fakelib_copies)

\* C18: with no copy failure the fakelib directory is replaced exactly once
\* in every marker directory; 'created' is the number of marker directories
\* and 'locations' lists each of them once.
C18_OncePerDirectory ==
    (FakelibRan /\ ds.fakelib.success /\ \A l \in Locations : ~CopyFailed(l)) =>
       /\ ds.fakelib_copies.created = Cardinality(MarkerDirs)
       /\ \A d \in SubDirs :
             /\ Occurrences(ds.fakelib_copies.locations, d)
                   = IF d \in MarkerDirs THEN 1 ELSE 0
             /\ Cardinality(CopiesInto(d)) = IF d \in MarkerDirs THEN 1 ELSE 0

\* C19: downgrade_and_sign runs its patch step and its fakelib step as
\* configured, whatever the number of ELF files found, zero included.
C19_StepsAlwaysRun ==
    DsReturned =>
       /\ ds.cfg.fakelib => Count("fakelib") = 1
       /\ PatchStepChoice(ds.cfg) # "none" => Count(PatchStepChoice(ds.cfg)) = 1

----------------------------------------------------------------------------
(* Claims about the configuration file, checked under SpecConfig *)

\* C20: whatever the configuration file holds, no operation raises because
\* of it, get_last_directories returns the stored directories or empty
\* strings, and decrypt_files and downgrade_and_sign go on to their files.
C20_ConfigNeverFatal ==
    /\ pc # "raised"
    /\ cf.result # <<"none", "none">> =>
          cf.result = <<LoadConfig(cf.file).last_input, LoadConfig(cf.file).last_output>>

----------------------------------------------------------------------------
(* Claims about the command-line entry points, checked under SpecCli *)

\* the failure counters of the report the entry point received
FailureCounters ==
    CASE cli.operation = "decrypt_files" -> {dc.failed}
      [] cli.operation = "downgrade_and_sign" ->
            {ds.downgrade.failed, ds.signing.failed}
      [] cli.operation = "process_full_pipeline" ->
            {dc.failed} \cup (IF fp.aborted THEN {}
                              ELSE {ds.downgrade.failed, ds.signing.failed})
      [] cli.operation = "check_libc_patch_status" -> {}
      [] OTHER -> {pe.cnt.failed}

\* C21: an entry point that received a report with a non-zero failure
\* counter exits with a non-zero status, whatever the mode.
C21_FailureGivesNonZeroExit ==
    (cli.exited /\ \E n \in FailureCounters : n > 0) => cli.code # 0

----------------------------------------------------------------------------
(* Claims about the reports, checked under SpecScan *)

\* decrypt_files has returned its report to the user
DecryptReturned == pc = "done" /\ dc.caller = "user"

\* C22: when decrypt_files returns, every SELF file it found has an entry in
\* the files map; when downgrade_and_sign returns, every ELF file it found
\* has a downgrade entry and a signing entry, the files skipped for an
\* existing output included.
C22_ReportComplete ==
    /\ DecryptReturned => \A p \in dc.found : dc.files[p] # ""
    /\ DsReturned =>
          \A p \in ElfFound :
             ds.downgrade.files[p] # "" /\ ds.signing.files[p] # ""

----------------------------------------------------------------------------
(* Claims about the order of the steps, checked under SpecOrder *)

\* the positions in the log of the calls of one kind
EventsOf(kinds) == {i \in 1..Len(log) : log[i].ev \in kinds}

\* kind was invoked on p before position i of the log
HappenedBefore(kind, p, i) ==
    \E j \in 1..(i - 1) : log[j].ev = kind /\ log[j].p = p

\* the signing loop has dealt with p before position i of the log: signed
\* it, or skipped it for its failed downgrade or its existing output
SigningDoneBefore(p, i) ==
    \/ HappenedBefore("signer", p, i)
    \/ DowngradeFailed(p)
    \/ OutputKept(p)

\* C23: in downgrade_and_sign the signer is invoked only after the version
\* patcher was invoked on every ELF file found, apply / revert only after
\* the signing loop has dealt with every file, the fakelib copies only after
\* the patch step has returned; while the patch step runs no copy of this
\* invocation exists, so it modifies none.
C23_StageOrder ==
    /\ \A i \in EventsOf({"signer"}) :
          \A p \in ElfFound : HappenedBefore("patcher", p, i)
    /\ \A i \in EventsOf({"apply", "revert"}) :
          /\ \A p \in ElfFound : SigningDoneBefore(p, i)
          /\ \A j \in EventsOf({"patcher", "signer"}) : j < i
    /\ \A i \in EventsOf({"fakelib", "copy"}) :
          /\ \A j \in EventsOf({"patcher", "signer", "apply", "revert"}) : j < i
          /\ pc \notin {"ds_downgrade", "ds_sign", "patch"}
          /\ pe.queue = <<>>
    /\ pc = "patch" => EventsOf({"fakelib", "copy"}) = {}

\* downgrade_and_sign returned after both files were downgraded and signed,
\* the patch step converted a file and the fakelib was copied to both places
C23_Witness ==
    /\ DsReturned
    /\ Cardinality(ElfFound) = 2
    /\ \A p \in ElfFound : Happened("patcher", p) /\ Happened("signer", p)
    /\ Count("apply") = 1
    /\ \E p \in hist.targets : pe.files[p] = "applied"
    /\ ds.fakelib.success
    /\ ds.fakelib_copies.created = 1

----------------------------------------------------------------------------
(* Claims about the counters of the patch engine, checked under SpecPatch *)

\* the targets whose entry in the files map has one of the statuses
WithStatus(statuses) == {p \in hist.targets : pe.files[p] \in statuses}

\* C24: when apply_libc_patch or revert_libc_patch returns, the targets are
\* the SELF files and the libc.prx files of the directory as it was at the
\* call, each of them has one entry in the files map and no other path has
\* one, each counter is the number of targets with its status, and the four
\* counters add up to the number of targets.
C24_CounterPartition ==
    \A op \in {"apply", "revert"} :
       Returned(op) =>
          /\ hist.targets = SelfFiles(hist.pre, pe.dir) \cup LibcExtra(hist.pre, pe.dir)
          /\ \A p \in Paths : (pe.files[p] # "") <=> (p \in hist.targets)
          /\ pe.cnt.done = Cardinality(WithStatus({PatchSpec(op).done}))
          /\ pe.cnt.already = Cardinality(WithStatus({PatchSpec(op).already}))
          /\ pe.cnt.notfound = Cardinality(WithStatus({PatchSpec(op).notfound}))
          /\ pe.cnt.failed = Cardinality(WithStatus(FailedStatus))
          /\ pe.cnt.done + pe.cnt.already + pe.cnt.notfound + pe.cnt.failed
                = Cardinality(hist.targets)

\* a call over two targets returned with one file converted and one failed
C24_Witness ==
    /\ \E op \in {"apply", "revert"} : Returned(op)
    /\ Cardinality(hist.targets) = 2
    /\ pe.cnt.done = 1
    /\ pe.cnt.failed = 1

----------------------------------------------------------------------------
(* Claims about the files next to the targets, checked under SpecScan *)

\* the backup paths of the targets of the call
BackupPaths(op) == {WithSuffix(p, PatchSpec(op).suffix) : p \in hist.targets}

\* C25: when apply_libc_patch or revert_libc_patch called with create_backup
\* returns, every file that is not a target has the content it had before the
\* call, except a backup the call created itself at a path where no file
\* was; a file that was already at a backup path is unchanged.
C25_OnlyOwnBackupsTouched ==
    \A op \in {"apply", "revert"} :
       (Returned(op) /\ pe.backup) =>
          \A q \in Paths \ hist.targets :
             \/ fs[q] = hist.pre[q]
             \/ ~Exists(hist.pre, q) /\ q \in BackupPaths(op)


\* the files that were in the output directory when downgrade_and_sign was
\* entered
PreExistingOutputs == {p \in Paths : DirOf(p) = ds.output /\ Exists(ds.pre, p)}

\* C26: when downgrade_and_sign called with overwrite = false returns, the
\* signer was not invoked for an input whose output existed, and every file
\* that was in the output directory at the call has the content it had.
C26_ExistingOutputsKept ==
    (DsReturned /\ ~ds.cfg.overwrite) =>
       /\ \A p \in ElfFound :
             Exists(ds.pre, Mirror(p, ds.output)) => ~Happened("signer", p)
       /\ \A p \in PreExistingOutputs : fs[p] = ds.pre[p]

----------------------------------------------------------------------------
(* Claims about the GUI, checked under SpecGui and SpecGuiFair *)

\* processing_finished is pending or has not yet been scheduled for run i
Unfinished(i) == gui.runs[i].pc # "none" /\ ~gui.runs[i].finished

\* C27: at most one worker thread is running at any time, and the run button
\* is disabled from the start of a worker until processing_finished has run
\* for it.
C27_SingleWorker ==
    /\ Cardinality(Live) <= 1
    /\ \A i \in 1..MaxRuns : Unfinished(i) => gui.button = "disabled"

\* a second worker is running after the first run was finished
C27_Witness ==
    /\ gui.runs[1].finished
    /\ gui.runs[2].pc = "dispatch"


\* the worker of run i has left worker_thread
Exited(i) == gui.runs[i].pc = "exited"

\* what holds of the runs that are over: one dialog scheduled, stdout saved
\* from the console and, with no worker left, given back to it
CleanedUp ==
    /\ \A i \in 1..MaxRuns :
          /\ Len(gui.runs[i].dialogs) <= 1
          /\ Exited(i) => /\ Len(gui.runs[i].dialogs) = 1
                          /\ gui.runs[i].old_stdout = "console"
    /\ Live = {} => gui.stdout = "console"

\* C28: every worker that was started, whether its operation returns or
\* raises or its parameters cannot be parsed, restores sys.stdout and
\* schedules exactly one of the two dialogs, and processing_finished is
\* eventually executed for it.
C28_WorkerCleanup ==
    /\ []CleanedUp
    /\ \A i \in 1..MaxRuns : (gui.runs[i].pc # "none") ~> gui.runs[i].finished

\* a run whose PAID or program type could not be parsed is over: the Error
\* dialog was scheduled, stdout is the console, processing_finished has run
C28_Witness ==
    /\ ~gui.runs[1].params_ok
    /\ gui.runs[1].dialogs = <<"Error">>
    /\ gui.runs[1].finished
    /\ gui.stdout = "console"
    /\ gui.button = "normal"

\* C29: the log widget is modified by the Tk main thread only, never by a
\* worker thread directly.
C29_WidgetOnMainThread == gui.widget \subseteq {"main"}

\* C30: a run started with valid directories and parsable parameters executes
\* the processor operation of its mode, and ends with the Done dialog unless
\* that operation itself raised.
C30_ModeDispatched ==
    \A i \in 1..MaxRuns :
        (Exited(i) /\ gui.runs[i].params_ok) =>
            /\ gui.runs[i].executed
            /\ gui.runs[i].op_raised \/ gui.runs[i].dialogs = <<"Done">>

====
